---------------------------- MODULE Spec2Model ----------------------------
(***************************************************************************)
(* Roof generation and roof edit sessions of the BlenderBIM add-on          *)
(* (bim/module/model/roof.py, bim/module/model/decorator.py), and the      *)
(* Prophecy test double of the core tests (test/core/bootstrap.py).        *)
(*                                                                         *)
(* Lengths are integers in units of 1e-4 m, the tolerance of float_is_zero, *)
(* so that "within tolerance" is exact: Tol = 1 unit.  Crease values are    *)
(* integers over CreaseDen (0, 1/2, 1).                                     *)
(***************************************************************************)
EXTENDS Integers, Sequences, FiniteSets, TLC

VARIABLES
    mesh,       \* obj.data: [verts, edges, faces]
    editmesh,   \* the edit-mode bmesh of obj.data (in EDIT mode; empty otherwise)
    gen,        \* what the last generate_gable_roof call did (ghost record)
    props,      \* obj.BIMRoofProperties
    pset,       \* the BBIM_Roof property set of the element ("Data"), or NoPset
    roofData,   \* RoofData cache: [is_loaded, path_data]
    installed,  \* ProfileDecorator.installed
    handlers,   \* draw handlers registered with SpaceView3D
    objmode,    \* obj.mode
    unit,       \* the project's length unit, in units of 1e-4 m (si_conversion = unit / 10000)
    prophet,    \* a Prophecy: [predictions, calls, return_values, should_call]
    last        \* the last operation and how it ended

vars == <<mesh, editmesh, gen, props, pset, roofData, installed, handlers, objmode, unit,
          prophet, last>>

----------------------------------------------------------------------------
(* Program constants, in units of 1e-4 m *)

Tol == 1
DebugZ == 10000
ExtrudeZ == 1000
DefaultHalf == 50000

(* Crease values a user sets on an edge: 0, 1/2 and 1 *)

CreaseValues == {0, 1, 2}
CreaseDen == Cardinality(CreaseValues) - 1

----------------------------------------------------------------------------
(* Arithmetic and vectors *)

Abs(x) == IF x < 0 THEN -x ELSE x

Range(s) == {s[i] : i \in DOMAIN s}

RECURSIVE Gcd(_, _)
Gcd(a, b) == IF b = 0 THEN a ELSE Gcd(b, a % b)

VAdd(a, b) == <<a[1] + b[1], a[2] + b[2], a[3] + b[3]>>
VSub(a, b) == <<a[1] - b[1], a[2] - b[2], a[3] - b[3]>>

\* The vector d in the largest unit that keeps its coordinates whole: the
\* same direction, with small numbers
Reduced(d) ==
    LET g == Gcd(Gcd(Abs(d[1]), Abs(d[2])), Abs(d[3]))
    IN IF g = 0 THEN d ELSE <<d[1] \div g, d[2] \div g, d[3] \div g>>

\* float_is_zero(f)
float_is_zero(f) == Tol >= f /\ f >= -Tol

\* float_is_zero(d.length) for a vector d, without forming large squares
LengthIsZero(d) ==
    /\ Abs(d[1]) <= Tol /\ Abs(d[2]) <= Tol /\ Abs(d[3]) <= Tol
    /\ d[1] * d[1] + d[2] * d[2] + d[3] * d[3] <= Tol * Tol

\* The direction of the 2D vector d as <<ux, uy, l>>: d.normalized() is
\* (ux / l, uy / l), with ux, uy reduced by their common divisor.  The
\* footprints of the model have edges of integer length, so l is an integer.
Direction(d) ==
    LET g == Gcd(Abs(d[1]), Abs(d[2]))
        ux == d[1] \div g
        uy == d[2] \div g
        l == CHOOSE r \in 0..(Abs(ux) + Abs(uy)) : r * r = ux * ux + uy * uy
    IN <<ux, uy, l>>

----------------------------------------------------------------------------
(* Meshes: vertices are numbered from 1 in the order Blender enumerates    *)
(* them (index + 1); an edge is [v |-> <<a, b>>, crease |-> c]; a face is   *)
(* the sequence of its vertex numbers.                                     *)

EmptyMesh == [verts |-> <<>>, edges |-> <<>>, faces |-> <<>>]

EdgeSet(e) == {e.v[1], e.v[2]}

\* SelectSeq with a predicate on the index
RECURSIVE KeepIdx(_, _, _)
KeepIdx(s, keep, i) ==
    IF i > Len(s) THEN <<>>
    ELSE (IF i \in keep THEN <<s[i]>> ELSE <<>>) \o KeepIdx(s, keep, i + 1)

\* The number a kept vertex has after the vertices outside keep are removed
NewIndex(keep, i) == Cardinality({j \in keep : j <= i})

\* bm.verts.remove(v) for every vertex outside keep: the vertex goes, with
\* every edge and face that uses it; the rest is renumbered in order.
RemoveVerts(m, keep) ==
    LET ekeep == {k \in DOMAIN m.edges : EdgeSet(m.edges[k]) \subseteq keep}
        fkeep == {k \in DOMAIN m.faces : Range(m.faces[k]) \subseteq keep}
        es == KeepIdx(m.edges, ekeep, 1)
        fs == KeepIdx(m.faces, fkeep, 1)
    IN [verts |-> KeepIdx(m.verts, keep, 1),
        edges |-> [k \in DOMAIN es |->
                     [v |-> <<NewIndex(keep, es[k].v[1]), NewIndex(keep, es[k].v[2])>>,
                      crease |-> es[k].crease]],
        faces |-> [k \in DOMAIN fs |->
                     [j \in DOMAIN fs[k] |-> NewIndex(keep, fs[k][j])]]]

HasEdge(edges, a, b) == \E k \in DOMAIN edges : EdgeSet(edges[k]) = {a, b}

\* bm.faces.new(verts): the face, and the edges of its loop that do not
\* exist yet, in loop order, with crease 0.
RECURSIVE AddLoopEdges(_, _, _)
AddLoopEdges(edges, f, j) ==
    IF j > Len(f) THEN edges
    ELSE LET a == f[j]
             b == f[(j % Len(f)) + 1]
         IN AddLoopEdges(IF HasEdge(edges, a, b) THEN edges
                         ELSE Append(edges, [v |-> <<a, b>>, crease |-> 0]),
                         f, j + 1)

RECURSIVE AddFaces(_, _, _)
AddFaces(m, faces, k) ==
    IF k > Len(faces) THEN m
    ELSE AddFaces([verts |-> m.verts,
                   edges |-> AddLoopEdges(m.edges, faces[k], 1),
                   faces |-> Append(m.faces, faces[k])],
                  faces, k + 1)

\* new_verts = [bm.verts.new(v) ...]; new_faces = [bm.faces.new(...) ...]
\* with the faces given in the numbering of the new vertices.
AddGeometry(m, verts, faces) ==
    LET off == Len(m.verts)
        shifted == [k \in DOMAIN faces |-> [j \in DOMAIN faces[k] |-> faces[k][j] + off]]
    IN AddFaces([verts |-> m.verts \o verts, edges |-> m.edges, faces |-> m.faces],
                shifted, 1)


----------------------------------------------------------------------------
(* generate_gable_roof, step by step *)

\* The scan that identifies the footprint vertices by min_z: the vertices
\* are visited in index order; the result is the final footprint_min_z and
\* the footprint vertices in the order they were appended.
RECURSIVE ScanFrom(_, _, _, _)
ScanFrom(verts, i, minz, fp) ==
    IF i > Len(verts) THEN [min_z |-> minz, verts |-> fp]
    ELSE LET z == verts[i][3]
         IN IF float_is_zero(z - minz) THEN ScanFrom(verts, i + 1, minz, Append(fp, i))
            ELSE IF minz > z THEN ScanFrom(verts, i + 1, z, <<i>>)
            ELSE ScanFrom(verts, i + 1, minz, fp)

ScanFootprint(verts) == ScanFrom(verts, 1, 0, <<>>)

\* set(chain(*[v.link_edges for v in footprint_verts])): the edges with an
\* endpoint among the footprint vertices
LinkEdges(m, fp) == {k \in DOMAIN m.edges : EdgeSet(m.edges[k]) \cap fp # {}}

\* The orders list(set(...)) may give the footprint edges in: the model draws
\* the first edge and keeps the rest in index order (what follows depends on
\* the order only through the first edge of each loop).
RECURSIVE Ascending(_)
Ascending(S) ==
    IF S = {} THEN <<>>
    ELSE LET k == CHOOSE x \in S : \A y \in S : x <= y
         IN <<k>> \o Ascending(S \ {k})

RECURSIVE Descending(_)
Descending(S) ==
    IF S = {} THEN <<>>
    ELSE LET k == CHOOSE x \in S : \A y \in S : x >= y
         IN <<k>> \o Descending(S \ {k})

\* list(set(...)) enumerates the edges in an order of its own
EdgeOrders(S) == {Ascending(S), Descending(S)}

\* original_geometry_data and boundary_lines.  An edge of footprint_edges
\* that lost a vertex to bm.verts.remove is a removed BMEdge: reading its
\* verts raises ReferenceError (dead).  Vertices keep the index they had
\* before the removal.
Snapshot(m, eorder) ==
    LET scan == ScanFootprint(m.verts)
        fp == Range(scan.verts)
    IN [min_z |-> scan.min_z,
        fpv |-> scan.verts,
        dead |-> \E j \in DOMAIN eorder : ~(EdgeSet(m.edges[eorder[j]]) \subseteq fp),
        edges |-> [j \in DOMAIN eorder |-> EdgeSet(m.edges[eorder[j]])],
        verts |-> [j \in DOMAIN scan.verts |-> m.verts[scan.verts[j]]],
        crease_values |-> [j \in DOMAIN eorder |-> m.edges[eorder[j]].crease],
        lines |-> [j \in DOMAIN eorder |->
                     <<m.verts[m.edges[eorder[j]].v[1]], m.verts[m.edges[eorder[j]].v[2]]>>],
        stripped |-> RemoveVerts(m, fp)]

----------------------------------------------------------------------------
(* Boundary extraction: shapely.union_all and shapely.polygonize on         *)
(* segments that meet only at shared end points.                           *)

XY(p) == <<p[1], p[2]>>

Touches(line, p) == XY(line[1]) = XY(p) \/ XY(line[2]) = XY(p)

Degree(lines, L, p) == Cardinality({k \in L : Touches(lines[k], p)})

\* Segments with a free end (dangles) are in no polygon.
RECURSIVE PruneDangles(_, _)
PruneDangles(lines, L) ==
    LET dangling == {k \in L : Degree(lines, L, lines[k][1]) < 2
                               \/ Degree(lines, L, lines[k][2]) < 2
                               \/ XY(lines[k][1]) = XY(lines[k][2])}
    IN IF dangling = {} THEN L ELSE PruneDangles(lines, L \ dangling)

\* Walk the loop of L that starts with segment k, from its first point.
RECURSIVE WalkRing(_, _, _, _, _)
WalkRing(lines, L, used, ring, cur) ==
    LET next == {k \in L \ used : Touches(lines[k], cur)}
    IN IF next = {} THEN [ring |-> ring, used |-> used]
       ELSE LET k == CHOOSE x \in next : \A y \in next : x <= y
                far == IF XY(lines[k][1]) = XY(cur) THEN lines[k][2] ELSE lines[k][1]
            IN IF XY(far) = XY(ring[1]) THEN [ring |-> ring, used |-> used \cup {k}]
               ELSE WalkRing(lines, L, used \cup {k}, Append(ring, far), far)

RECURSIVE Rings(_, _)
Rings(lines, L) ==
    IF L = {} THEN <<>>
    ELSE LET k == CHOOSE x \in L : \A y \in L : x <= y
             w == WalkRing(lines, L, {k}, <<lines[k][1], lines[k][2]>>, lines[k][2])
         IN <<w.ring>> \o Rings(lines, L \ w.used)

\* The areas of rings are compared, and their signs read, in the largest
\* length unit that keeps every coordinate whole.
RECURSIVE GcdOf(_)
GcdOf(S) ==
    IF S = {} THEN 0
    ELSE LET x == CHOOSE y \in S : TRUE IN Gcd(Abs(x), GcdOf(S \ {x}))

Grid(rs) ==
    LET g == GcdOf(UNION {UNION {{rs[k][i][1], rs[k][i][2]} : i \in DOMAIN rs[k]} :
                              k \in DOMAIN rs})
    IN IF g = 0 THEN 1 ELSE g

\* Twice the signed area of a ring (positive: counter-clockwise), in grid
\* units
RECURSIVE Shoelace(_, _, _)
Shoelace(r, g, i) ==
    IF i > Len(r) THEN 0
    ELSE LET p == r[i]
             q == r[(i % Len(r)) + 1]
         IN ((p[1] \div g) * (q[2] \div g) - (q[1] \div g) * (p[2] \div g))
            + Shoelace(r, g, i + 1)

\* roof_polygon.reverse(): a closed ring [a, b, c, d, a] read backwards,
\* so exterior.coords[0:-1] becomes [a, d, c, b]
ReverseRing(r) == [i \in DOMAIN r |-> IF i = 1 THEN r[1] ELSE r[Len(r) + 2 - i]]

\* The polygonizer (GEOS) hands out the shell of a polygon clockwise,
\* whichever way the segments were drawn.
Shell(r) == IF Shoelace(r, Grid(<<r>>), 1) > 0 THEN ReverseRing(r) ELSE r

\* Polygonize keeping the rings of fewer than 3 points
PolygonizeAll(lines) ==
    LET rs == Rings(lines, PruneDangles(lines, DOMAIN lines))
    IN [k \in DOMAIN rs |-> Shell(rs[k])]

\* closed_polygons.geoms: the exterior rings of the polygons found.  Every
\* ring bounds one polygon; the rings directly inside it are its holes.
Polygonize(lines) ==
    LET rs == Rings(lines, PruneDangles(lines, DOMAIN lines))
        closed == SelectSeq(rs, LAMBDA r : Len(r) >= 3)
    IN [k \in DOMAIN closed |-> Shell(closed[k])]

\* The segment a-b is crossed by the ray from p to the right
Crossing(a, b, p) ==
    /\ (a[2] > p[2]) # (b[2] > p[2])
    /\ IF b[2] > a[2]
       THEN (p[1] - a[1]) * (b[2] - a[2]) < (p[2] - a[2]) * (b[1] - a[1])
       ELSE (p[1] - a[1]) * (b[2] - a[2]) > (p[2] - a[2]) * (b[1] - a[1])

\* The point p is inside the ring r
InsideRing(r, p) ==
    Cardinality({i \in DOMAIN r : Crossing(r[i], r[(i % Len(r)) + 1], p)}) % 2 = 1

\* roof_polygon.interiors for the polygon with shell rs[j]: the rings
\* directly inside it, in the order found
HolesOf(rs, j) ==
    {k \in DOMAIN rs \ {j} :
        /\ InsideRing(rs[j], rs[k][1])
        /\ ~\E m \in DOMAIN rs \ {j, k} :
               InsideRing(rs[m], rs[k][1]) /\ InsideRing(rs[j], rs[m][1])}

\* Twice polygon.area for the polygon with shell rs[j], in grid units g
RECURSIVE PolygonArea(_, _, _, _, _)
PolygonArea(rs, g, j, holes, i) ==
    IF i > Len(rs) THEN 0
    ELSE (IF i = j THEN Abs(Shoelace(rs[i], g, 1))
          ELSE IF i \in holes THEN -Abs(Shoelace(rs[i], g, 1)) ELSE 0)
         + PolygonArea(rs, g, j, holes, i + 1)

\* max(closed_polygons.geoms, key=area): the first polygon of largest area
MaxAreaRing(rs) ==
    LET area(j) == PolygonArea(rs, Grid(rs), j, HolesOf(rs, j), 1)
        k == CHOOSE i \in DOMAIN rs :
                 /\ \A j \in DOMAIN rs : area(j) <= area(i)
                 /\ \A j \in DOMAIN rs : j < i => area(j) < area(i)
    IN rs[k]

\* shapely.is_ccw(roof_polygon): the orientation is told for a LineString
\* or a LinearRing only; for any other geometry, as the Polygon passed
\* here, the answer is False.
is_ccw(roof_polygon) == FALSE

\* "make sure the polygon is counter-clockwise"
NormalizeOrientation(r) == IF ~is_ccw(r) THEN ReverseRing(r) ELSE r

----------------------------------------------------------------------------
(* The skeleton generator, bpypolyskel.polygonize, on a rectangular outer   *)
(* ring without holes: the ring's vertices followed by the skeleton nodes, *)
(* and one face per ring edge, starting with the edge.                     *)

\* tan(radians(round(angle, 4))) as a fraction <<n, d>>, for the angles the
\* model uses.  Angles are in units of 0.001 degree, which round(angle, 4)
\* leaves as they are.
TanDegrees(angle) == CASE angle = 0 -> <<0, 1>> [] angle = 45000 -> <<1, 1>>
                        \* 45000 degrees are 125 turns
                        [] angle = 45000000 -> <<0, 1>>

\* SlopeArgs passing the height and the tangent whatever the mode
SlopeBoth(mode, height, angle) == [height |-> height, tan |-> TanDegrees(angle)]

\* mode, height, angle -> the (height, tan) pair handed to the generator
SlopeArgs(mode, height, angle) ==
    IF mode = "HEIGHT" THEN [height |-> height, tan |-> <<0, 1>>]
    ELSE [height |-> 0, tan |-> TanDegrees(angle)]

Half(p) == <<p[1] \div 2, p[2] \div 2, p[3] \div 2>>
Times(k, p) == <<k * p[1], k * p[2], k * p[3]>>

\* The ring passes straight through its vertex i
StraightAt(r, i) ==
    Reduced(VSub(r[i], r[IF i = 1 THEN Len(r) ELSE i - 1]))
        = Reduced(VSub(r[(i % Len(r)) + 1], r[i]))

\* The ring without the vertices it passes straight through
Corners(r) == KeepIdx(r, {i \in DOMAIN r : ~StraightAt(r, i)}, 1)

\* On a square every edge of the ring has its face up to the apex, also the
\* two halves of a side with a vertex in its middle.
polyskel(r, slope) ==
    LET c == Corners(r)
        a == VSub(c[2], c[1])
        b == VSub(c[3], c[2])
        ga == Gcd(Abs(a[1]), Abs(a[2]))
        gb == Gcd(Abs(b[1]), Abs(b[2]))
        ua == <<a[1] \div ga, a[2] \div ga, 0>>
        ub == <<b[1] \div gb, b[2] \div gb, 0>>
        l == Direction(a)[3]
        \* distance of the ridge from the eaves
        dist == ((IF ga < gb THEN ga ELSE gb) * l) \div 2
        rise == IF slope.height # 0 THEN slope.height
                ELSE (slope.tan[1] * dist) \div slope.tan[2]
        lift(p) == <<p[1], p[2], r[1][3] + rise>>
    IN IF ga = gb
       THEN [verts |-> r \o <<lift(VAdd(c[1], Half(VAdd(a, b))))>>,
             faces |-> [i \in DOMAIN r |-> <<i, (i % Len(r)) + 1, Len(r) + 1>>]]
       ELSE IF ga > gb
       THEN LET inset == Times(gb \div 2, ua)
                n1 == lift(VAdd(VAdd(r[1], Half(b)), inset))
                n2 == lift(VSub(VAdd(r[2], Half(b)), inset))
            IN [verts |-> r \o <<n1, n2>>,
                faces |-> <<<<1, 2, 6, 5>>, <<2, 3, 6>>, <<3, 4, 5, 6>>, <<4, 1, 5>>>>]
       ELSE LET inset == Times(ga \div 2, ub)
                n1 == lift(VAdd(VAdd(r[1], Half(a)), inset))
                n2 == lift(VSub(VAdd(r[4], Half(a)), inset))
            IN [verts |-> r \o <<n1, n2>>,
                faces |-> <<<<1, 2, 5>>, <<2, 3, 6, 5>>, <<3, 4, 6>>, <<4, 1, 5, 6>>>>]

----------------------------------------------------------------------------
(* The edge matcher of generate_gable_roof *)

None == 0

\* find_close_original_vert returning the last close vertex instead of the
\* first
find_close_last(snap, dz, co) ==
    LET close == {j \in DOMAIN snap.verts :
                    LengthIsZero(VSub(VSub(co, <<0, 0, dz>>), snap.verts[j]))}
    IN IF close = {} THEN None
       ELSE snap.fpv[CHOOSE j \in close : \A k \in close : j >= k]

\* find_close_original_vert returning the position of the vertex in the
\* snapshot instead of its index in the mesh
find_close_position(snap, dz, co) ==
    LET close == {j \in DOMAIN snap.verts :
                    LengthIsZero(VSub(VSub(co, <<0, 0, dz>>), snap.verts[j]))}
    IN IF close = {} THEN None
       ELSE CHOOSE j \in close : \A k \in close : j <= k

\* find_close_original_vert(co): the index of the first snapshot vertex
\* within tolerance of co (lowered by debug_z_distance), or None
find_close_original_vert(snap, dz, co) ==
    LET close == {j \in DOMAIN snap.verts :
                    LengthIsZero(VSub(VSub(co, <<0, 0, dz>>), snap.verts[j]))}
    IN IF close = {} THEN None
       ELSE snap.fpv[CHOOSE j \in close : \A k \in close : j <= k]

\* The edges of the mesh whose two ends are at the footprint level
LevelEdges(m, dz, min_z) ==
    SelectSeq([k \in DOMAIN m.edges |-> k],
              LAMBDA k : \A i \in 1..2 :
                  float_is_zero(m.verts[m.edges[k].v[i]][3] - dz - min_z))

\* find_other_polygon_verts_i(edge): the vertices, outside the edge, of the
\* first polygon that holds both ends of the edge; when none does the loop
\* runs out and the last polygon is used.
find_other_polygon_verts_i(m, e) ==
    LET holds == {k \in DOMAIN m.faces : EdgeSet(e) \subseteq Range(m.faces[k])}
        k == IF holds = {} THEN Len(m.faces)
             ELSE CHOOSE x \in holds : \A y \in holds : x <= y
    IN SelectSeq(m.faces[k], LAMBDA vi : vi \notin EdgeSet(e))

\* angle_between(A, B, P) as the fraction <<rise * l, run * l>> of its
\* tangent, where run is the horizontal distance of P from the line AB
angle_between(A, B, P) ==
    LET d == Direction(<<B[1] - A[1], B[2] - A[2]>>)
        cross == d[1] * (P[2] - A[2]) - d[2] * (P[1] - A[1])
    IN <<(P[3] - A[3]) * d[3], Abs(cross)>>

\* project_vert_on_edge_linearly(projected_vert_co, edge_verts_coords, t),
\* t = c / CreaseDen.  edge_space has the columns AB_dir and its normal;
\* the code multiplies AO by edge_space, scales the second coordinate by
\* (1 - t) and multiplies by the inverse of edge_space.  d is the
\* direction of AB as <<ux, uy, l>>.

\* edge_space.inverted() @ AO_local after the scaling, times l * l * CreaseDen,
\* for AO_local = (lx, ly) / l
FromEdgeSpace(d, lx, ly, c) ==
    <<CreaseDen * d[1] * lx + (CreaseDen - c) * d[2] * ly,
      (CreaseDen - c) * d[1] * ly - CreaseDen * d[2] * lx,
      CreaseDen * d[3] * d[3]>>

\* AO_local = edge_space @ AO, times l, and back
ThroughEdgeSpace(d, aox, aoy, c) ==
    FromEdgeSpace(d, d[1] * aox - d[2] * aoy, d[2] * aox + d[1] * aoy, c)

ProjectNumerators(O, A, B, c) ==
    ThroughEdgeSpace(Direction(<<B[1] - A[1], B[2] - A[2]>>), O[1] - A[1], O[2] - A[2], c)

\* Placed at the height of the edge instead of the height of O
PlacedLowered(O, A, n) == <<A[1] + n[1] \div n[3], A[2] + n[2] \div n[3], A[3]>>

\* A + the vector found, at the height of O
Placed(O, A, n) == <<A[1] + n[1] \div n[3], A[2] + n[2] \div n[3], O[3]>>

project_vert_on_edge_linearly(O, A, B, c) == Placed(O, A, ProjectNumerators(O, A, B, c))

\* The snapshot edges equal to old_verts_notation
OldEdgesWith(snap, old_verts_notation) ==
    {i \in DOMAIN snap.edges : snap.edges[i] = old_verts_notation}

\* old_verts_notation is the set of the close original vertices of the two
\* ends A, B of a new edge
OldEdgesFor(snap, dz, A, B) ==
    OldEdgesWith(snap, {find_close_original_vert(snap, dz, A),
                        find_close_original_vert(snap, dz, B)})

\* verts_to_change after the vertices in others are projected on the edge
\* A, B with the crease value
MoveOthers(vtc, others, A, B, crease) ==
    [vi \in DOMAIN vtc |->
        IF crease # 0 /\ vi \in Range(others)
        THEN project_vert_on_edge_linearly(vtc[vi], A, B, Abs(crease))
        ELSE vtc[vi]]

\* One new footprint edge fe[j] matched with the snapshot edge old
Matched(m, snap, fe, j, acc, old) ==
    [edges_match |-> Append(acc.edges_match,
                            [edge |-> fe[j], old |-> old,
                             crease |-> snap.crease_values[old]]),
     verts_to_change |-> MoveOthers(acc.verts_to_change,
                                    find_other_polygon_verts_i(m, m.edges[fe[j]]),
                                    m.verts[m.edges[fe[j]].v[1]],
                                    m.verts[m.edges[fe[j]].v[2]],
                                    snap.crease_values[old])]

\* FirstOf without the test for no edge found: the first snapshot edge is
\* taken
FirstOfOrFirst(found) ==
    IF found = {} THEN 1 ELSE CHOOSE i \in found : \A k \in found : i <= k

\* The first of the snapshot edges found, or None
FirstOf(found) == IF found = {} THEN None ELSE CHOOSE i \in found : \A k \in found : i <= k

MatchStep(m, snap, fe, j, acc, old) ==
    IF old = None THEN acc ELSE Matched(m, snap, fe, j, acc, old)

\* The loop over the new footprint edges: the matches found, as
\* [edge, old (index into the snapshot's edges), crease], and verts_to_change
RECURSIVE MatchLoop(_, _, _, _, _, _)
MatchLoop(m, snap, dz, fe, j, acc) ==
    IF j > Len(fe) THEN acc
    ELSE MatchLoop(m, snap, dz, fe, j + 1,
             MatchStep(m, snap, fe, j, acc,
                 FirstOf(OldEdgesFor(snap, dz, m.verts[m.edges[fe[j]].v[1]],
                                               m.verts[m.edges[fe[j]].v[2]]))))

----------------------------------------------------------------------------
(* generate_gable_roof(obj, mode, height, angle, leave_footprint), called  *)
(* in object mode: the mesh changes where the code calls apply_bmesh.       *)
(* eorder is the order list(set(...)) gave the footprint edges in.  The     *)
(* result is the mesh left on the object, how the call ended, and what the *)
(* call computed on the way.                                               *)

NoGen == [outcome |-> "none"]

Raised(stage, m, info) ==
    [outcome |-> "raised", stage |-> stage, mesh |-> m] @@ info

debug_z_distance(leave_footprint) == IF leave_footprint THEN DebugZ ELSE 0

\* The end of the call: the moved vertices are written to the mesh
GableFinish(info, calculated_angle, res) ==
    [outcome |-> "finished", stage |-> "done",
     mesh |-> [info.generated EXCEPT !.verts = res.verts_to_change],
     calculated_angle |-> calculated_angle,
     edges_match |-> res.edges_match] @@ info

\* atan(z / distance) is computed, then the edges are matched
GableMatch(info, dz, calculated_angle) ==
    IF calculated_angle[2] = 0 THEN Raised("match", info.generated, info)
    ELSE GableFinish(info, calculated_angle,
             MatchLoop(info.generated, info.snap, dz, info.footprint_edges, 1,
                       [edges_match |-> <<>>, verts_to_change |-> info.generated.verts]))

\* The angle of the roof, from the first footprint edge e0 and the first
\* other vertex of its polygon
GableAngle(info, dz, e0, other0) ==
    IF other0 = <<>> THEN Raised("match", info.generated, info)
    ELSE GableMatch(info, dz, angle_between(info.generated.verts[e0.v[1]],
                                            info.generated.verts[e0.v[2]],
                                            info.generated.verts[other0[1]]))

\* The roof is in the mesh: the new footprint edges are looked up
GableGenerated(info, dz) ==
    IF info.footprint_edges = <<>> \/ info.generated.faces = <<>>
    THEN Raised("match", info.generated, info)
    ELSE GableAngle(info, dz, info.generated.edges[info.footprint_edges[1]],
                    find_other_polygon_verts_i(info.generated,
                                               info.generated.edges[info.footprint_edges[1]]))

GableLevel(info, dz, generated) ==
    GableGenerated(info @@ [generated |-> generated,
                            footprint_edges |-> LevelEdges(generated, dz, info.snap.min_z)],
                   dz)

\* The skeleton is added to the mesh, lifted by debug_z_distance
GableBuild(info, dz, skel) ==
    GableLevel(info, dz,
               AddGeometry(info.footprint,
                           [i \in DOMAIN skel.verts |-> VAdd(skel.verts[i], <<0, 0, dz>>)],
                           skel.faces))

\* max(closed_polygons.geoms, ...) raises ValueError when there is none:
\* by then the mesh was stripped or cleared, and applied
GableSkeleton(info, slope, closed_polygons) ==
    IF closed_polygons = <<>> THEN Raised("extract", info.footprint, info)
    ELSE GableBuild(info, debug_z_distance(info.leave_footprint),
                    polyskel(NormalizeOrientation(MaxAreaRing(closed_polygons)), slope))

\* Reading the verts of a removed edge raises ReferenceError, before the
\* mesh is touched
GableExtract(m, slope, leave_footprint, snap) ==
    IF snap.dead
    THEN Raised("snapshot", m, [leave_footprint |-> leave_footprint, before |-> m])
    ELSE GableSkeleton([leave_footprint |-> leave_footprint, before |-> m, snap |-> snap,
                        footprint |-> IF leave_footprint THEN snap.stripped ELSE EmptyMesh],
                       slope, Polygonize(snap.lines))

generate_gable_roof(m, mode, height, angle, leave_footprint, eorder) ==
    GableExtract(m, SlopeArgs(mode, height, angle), leave_footprint, Snapshot(m, eorder))

----------------------------------------------------------------------------
(* The mesh clean-up GenerateHippedRoof._execute and                        *)
(* update_roof_modifier_bmesh run before generating                        *)

Remap(m, keep, rep) ==
    LET es0 == [k \in DOMAIN m.edges |->
                  [v |-> <<rep[m.edges[k].v[1]], rep[m.edges[k].v[2]]>>,
                   crease |-> m.edges[k].crease]]
        ekeep == {k \in DOMAIN es0 :
                    /\ es0[k].v[1] # es0[k].v[2]
                    /\ \A j \in DOMAIN es0 : j < k => EdgeSet(es0[j]) # EdgeSet(es0[k])}
        fs0 == [k \in DOMAIN m.faces |-> [j \in DOMAIN m.faces[k] |-> rep[m.faces[k][j]]]]
        fkeep == {k \in DOMAIN fs0 : Cardinality(Range(fs0[k])) = Len(fs0[k])}
    IN RemoveVerts([verts |-> m.verts,
                    edges |-> KeepIdx(es0, ekeep, 1),
                    faces |-> KeepIdx(fs0, fkeep, 1)], keep)

\* bmesh.ops.remove_doubles(bm, verts=bm.verts, dist=0.0001): a vertex
\* within dist of an earlier one is welded into it.
remove_doubles(m) ==
    LET rep == [i \in DOMAIN m.verts |->
                  CHOOSE j \in 1..i :
                      /\ LengthIsZero(VSub(m.verts[i], m.verts[j]))
                      /\ \A k \in 1..(j - 1) : ~LengthIsZero(VSub(m.verts[i], m.verts[k]))]
    IN Remap(m, {i \in DOMAIN m.verts : rep[i] = i}, rep)

EdgesAt(m, i) == {k \in DOMAIN m.edges : i \in EdgeSet(m.edges[k])}

OtherEnd(e, i) == IF e.v[1] = i THEN e.v[2] ELSE e.v[1]

\* A wire vertex between two edges that continue each other in a straight
\* line (the angle between them is below angle_limit)
Straight(m, i) ==
    /\ Cardinality(EdgesAt(m, i)) = 2
    /\ \A k \in DOMAIN m.faces : i \notin Range(m.faces[k])
    /\ LET ks == EdgesAt(m, i)
           k1 == CHOOSE k \in ks : \A y \in ks : k <= y
           k2 == CHOOSE k \in ks : k # k1
           p == Reduced(VSub(m.verts[OtherEnd(m.edges[k1], i)], m.verts[i]))
           q == Reduced(VSub(m.verts[OtherEnd(m.edges[k2], i)], m.verts[i]))
       IN /\ p[1] * q[2] - p[2] * q[1] = 0
          /\ p[1] * q[3] - p[3] * q[1] = 0
          /\ p[2] * q[3] - p[3] * q[2] = 0
          /\ p[1] * q[1] + p[2] * q[2] + p[3] * q[3] < 0

\* bmesh.ops.dissolve_limit(bm, angle_limit=0.0872665, ...) on the wire
\* vertices: a straight vertex is collapsed into its neighbour along its
\* second edge, so that its first edge spans both.
RECURSIVE dissolve_limit(_)
dissolve_limit(m) ==
    LET straight == {i \in DOMAIN m.verts : Straight(m, i)}
    IN IF straight = {} THEN m
       ELSE LET i == CHOOSE x \in straight : \A y \in straight : x <= y
                ks == EdgesAt(m, i)
                k2 == CHOOSE k \in ks : \A y \in ks : y <= k
                rep == [j \in DOMAIN m.verts |->
                          IF j = i THEN OtherEnd(m.edges[k2], i) ELSE j]
                rest == [m EXCEPT !.edges = KeepIdx(m.edges, DOMAIN m.edges \ {k2}, 1)]
            IN dissolve_limit(Remap(rest, DOMAIN m.verts \ {i}, rep))

----------------------------------------------------------------------------
(* The footprints the model draws: wire loops at z = 0 *)

WireMesh(vs, es) ==
    [verts |-> vs,
     edges |-> [k \in DOMAIN es |-> [v |-> es[k], crease |-> 0]],
     faces |-> <<>>]

Loop4 == <<<<1, 2>>, <<2, 3>>, <<3, 4>>, <<4, 1>>>>

SquareVerts == <<<<0, 0, 0>>, <<16, 0, 0>>, <<16, 16, 0>>, <<0, 16, 0>>>>
OblongVerts == <<<<0, 0, 0>>, <<32, 0, 0>>, <<32, 16, 0>>, <<0, 16, 0>>>>
TiltedVerts == <<<<0, 0, 0>>, <<400, 300, 0>>, <<100, 700, 0>>, <<-300, 400, 0>>>>

\* A stray vertex within tolerance of the first corner
Stray == <<0, -1, 0>>

Square == WireMesh(SquareVerts, Loop4)
\* the oblong is drawn clockwise
Oblong == WireMesh(OblongVerts, <<<<1, 4>>, <<4, 3>>, <<3, 2>>, <<2, 1>>>>)
Tilted == WireMesh(TiltedVerts, Loop4)
\* one side missing
SquareOpen == WireMesh(SquareVerts, <<<<1, 2>>, <<2, 3>>, <<3, 4>>>>)
\* a vertex in the middle of the first side
SquareMid == WireMesh(<<<<0, 0, 0>>, <<8, 0, 0>>, <<16, 0, 0>>, <<16, 16, 0>>, <<0, 16, 0>>>>,
                      <<<<1, 2>>, <<2, 3>>, <<3, 4>>, <<4, 5>>, <<5, 1>>>>)
\* the stray vertex, enumerated after or before the corners
SquareStrayLast == WireMesh(SquareVerts \o <<Stray>>, Loop4)
SquareStrayFirst ==
    WireMesh(<<Stray>> \o SquareVerts, <<<<2, 3>>, <<3, 4>>, <<4, 5>>, <<5, 2>>>>)

Footprints ==
    {Square, Oblong, Tilted, SquareOpen, SquareMid, SquareStrayLast, SquareStrayFirst}

ModeValues == {"ANGLE", "HEIGHT"}
\* the height and the angle (0.001 degree) passed with either mode
HeightValues == {40}
AngleValues == {45000}

\* At most this many edges carry a crease at a time
MaxCreased == 1

\* At most this many regenerations follow one another
MaxCalls == 2

----------------------------------------------------------------------------
(* The state outside an edit session *)

NoPset == [exists |-> FALSE]
PathNone == [none |-> TRUE]

\* BIMRoofProperties as registered, in SI units (metre; angle in 0.001 degree)
DefaultProps ==
    [is_editing |-> -1, is_editing_path |-> FALSE, roof_added_previously |-> FALSE,
     generation_method |-> "ANGLE", height |-> 10000, angle |-> 45000,
     path_data |-> [fmt |-> "unset"]]

\* No call of a Prophecy; should_call = None
NoCall == "None"

\* Prophecy.__init__(cls)
NoProphet == [predictions |-> <<>>, calls |-> <<>>, return_values |-> {}, should_call |-> NoCall]

SessionIdle ==
    /\ prophet = NoProphet
    /\ props = DefaultProps
    /\ pset = NoPset
    /\ roofData = [is_loaded |-> FALSE, path_data |-> PathNone]
    /\ installed = None
    /\ handlers = {}
    /\ objmode = "OBJECT"
    /\ editmesh = EmptyMesh

session_vars == <<editmesh, props, pset, roofData, installed, handlers, objmode, unit, prophet>>

----------------------------------------------------------------------------
(* Specification SpecGable: generate_gable_roof and the operator            *)
(* GenerateHippedRoof on the footprints of the model                       *)

\* The generator of the model covers rectangles
IsRectangle(r) ==
    /\ Len(r) = 4
    /\ VSub(r[2], r[1]) = VSub(r[3], r[4])
    /\ LET a == VSub(r[2], r[1])
           b == VSub(r[4], r[1])
       IN a[1] * b[1] + a[2] * b[2] = 0 /\ a[3] = 0 /\ b[3] = 0

Supported(m, eorder) ==
    LET snap == Snapshot(m, eorder)
        polys == Polygonize(snap.lines)
    IN IF snap.dead \/ polys = <<>> THEN TRUE ELSE IsRectangle(MaxAreaRing(polys))

FootprintEdgeOrders(m) == EdgeOrders(LinkEdges(m, Range(ScanFootprint(m.verts).verts)))

InitGable ==
    /\ mesh \in Footprints
    /\ gen = NoGen
    /\ unit = 10000
    /\ SessionIdle
    /\ last = [op |-> "init", outcome |-> "none", calls |-> 0]

\* A call of generate_gable_roof on the object, with any arguments
CallGenerateGableRoof ==
    /\ last.calls < MaxCalls
    /\ \E eorder \in FootprintEdgeOrders(mesh) :
          /\ Supported(mesh, eorder)
          /\ \E mode \in ModeValues, height \in HeightValues, angle \in AngleValues,
                leave_footprint \in BOOLEAN :
                \E r \in {generate_gable_roof(mesh, mode, height, angle,
                                              leave_footprint, eorder)} :
                    /\ mesh' = r.mesh
                    /\ gen' = r
                    /\ last' = [op |-> "generate_gable_roof", outcome |-> r.outcome,
                                 calls |-> last.calls + 1]
    /\ UNCHANGED session_vars

\* GenerateHippedRoof._execute with an active object and any values of its
\* properties: the mesh is cleaned up, then the roof generated
GenerateHippedRoof_execute ==
    /\ last.calls < MaxCalls
    /\ \E cleaned \in {remove_doubles(dissolve_limit(mesh))} :
          \E eorder \in FootprintEdgeOrders(cleaned) :
              /\ Supported(cleaned, eorder)
              /\ \E mode \in ModeValues, height \in HeightValues, angle \in AngleValues :
                    \E r \in {generate_gable_roof(cleaned, mode, height, angle,
                                                  TRUE, eorder)} :
                        /\ mesh' = r.mesh
                        /\ gen' = r
                        /\ last' = [op |-> "GenerateHippedRoof", outcome |-> r.outcome,
                                     calls |-> last.calls + 1]
    /\ UNCHANGED session_vars

Creased(m) == {k \in DOMAIN m.edges : m.edges[k].crease # 0}

\* The user sets the crease of a footprint edge
SetCrease(k, c) ==
    /\ gen = NoGen
    /\ EdgeSet(mesh.edges[k]) \subseteq Range(ScanFootprint(mesh.verts).verts)
    /\ mesh.edges[k].crease # c
    /\ mesh' = [mesh EXCEPT !.edges[k].crease = c]
    /\ Cardinality(Creased(mesh')) <= MaxCreased
    /\ last' = [op |-> "SetCrease", outcome |-> "finished", calls |-> last.calls]
    /\ UNCHANGED <<gen, session_vars>>

NextGable ==
    \/ CallGenerateGableRoof
    \/ GenerateHippedRoof_execute
    \/ \E k \in DOMAIN mesh.edges, c \in CreaseValues : SetCrease(k, c)

SpecGable == InitGable /\ [][NextGable]_vars

----------------------------------------------------------------------------
(* Units, paths and the persisted record *)

\* the project length units of the model: metre and millimetre
UnitValues == {10000, 10}

\* x / si_conversion and y * si_conversion, with si_conversion = u / 10000
ToProject(x, u) == (x * 10000) \div u
FromProject(y, u) == (y * u) \div 10000
ToProjectV(p, u) == <<ToProject(p[1], u), ToProject(p[2], u), ToProject(p[3], u)>>
FromProjectV(p, u) == <<FromProject(p[1], u), FromProject(p[2], u), FromProject(p[3], u)>>

\* convert_property_group_from_si(props, skip_props): the float properties
\* that are not skipped go from SI to project units
convert_property_group_from_si(p, u) ==
    [p EXCEPT !.height = ToProject(p.height, u), !.angle = ToProject(p.angle, u)]

\* props.get_general_kwargs()
get_general_kwargs(p) ==
    [generation_method |-> p.generation_method, height |-> p.height, angle |-> p.angle]

\* The number of faces that have edge k in their loop
FaceCount(m, k) ==
    Cardinality({f \in DOMAIN m.faces :
                    \E j \in DOMAIN m.faces[f] :
                        {m.faces[f][j], m.faces[f][(j % Len(m.faces[f])) + 1]}
                            = EdgeSet(m.edges[k])})

RECURSIVE WalkLoop(_, _, _)
WalkLoop(m, loop, used) ==
    LET cur == loop[Len(loop)]
        next == EdgesAt(m, cur) \ used
    IN IF next = {} THEN loop
       ELSE LET k == CHOOSE x \in next : \A y \in next : x <= y
                far == OtherEnd(m.edges[k], cur)
            IN IF far = loop[1] THEN loop
               ELSE WalkLoop(m, Append(loop, far), used \cup {k})

IsLoop(m) ==
    /\ m.faces = <<>>
    /\ m.edges # <<>>
    /\ \A i \in DOMAIN m.verts : Cardinality(EdgesAt(m, i)) = 2
    /\ Len(WalkLoop(m, <<1>>, {})) = Len(m.verts)

\* bmesh.ops.contextual_create(bm, geom=bm.edges[:]) on a closed wire loop
\* fills it with a face; nothing is created from no edges or from a mesh
\* whose edges all have their faces.
contextual_create(m) ==
    IF IsLoop(m) THEN [m EXCEPT !.faces = <<WalkLoop(m, <<1>>, {})>>] ELSE m

\* The bmesh of get_path_data after contextual_create, dissolve_edges of
\* the edges that are not boundary edges, and the deletion of the faces
PathBmesh(bm) ==
    LET filled == contextual_create(bm)
        boundary == {k \in DOMAIN filled.edges : FaceCount(filled, k) = 1}
    IN [verts |-> bm.verts, edges |-> KeepIdx(filled.edges, boundary, 1), faces |-> <<>>]

\* path_data of get_path_data(obj), read from that bmesh
get_path_data(bm, u) ==
    LET es == PathBmesh(bm).edges
    IN IF es = <<>> \/ bm.verts = <<>> THEN PathNone
       ELSE [none |-> FALSE,
             edges |-> [k \in DOMAIN es |-> es[k].v],
             verts |-> [i \in DOMAIN bm.verts |-> ToProjectV(bm.verts[i], u)]]

\* the path AddRoof writes when get_path_data returns None
DefaultPath(u) ==
    [none |-> FALSE,
     edges |-> Loop4,
     verts |-> <<ToProjectV(<<-DefaultHalf, -DefaultHalf, 0>>, u),
                 ToProjectV(<<-DefaultHalf, DefaultHalf, 0>>, u),
                 ToProjectV(<<DefaultHalf, DefaultHalf, 0>>, u),
                 ToProjectV(<<DefaultHalf, -DefaultHalf, 0>>, u)>>]

\* new_verts, new_edges of update_roof_modifier_bmesh
PathMesh(path_data, u) ==
    WireMesh([i \in DOMAIN path_data.verts |-> FromProjectV(path_data.verts[i], u)],
             path_data.edges)

\* update_bbim_roof_pset(element, roof_data)
update_bbim_roof_pset(roof_data, path_data) ==
    [exists |-> TRUE, generation_method |-> roof_data.generation_method,
     height |-> roof_data.height, angle |-> roof_data.angle, path_data |-> path_data]

\* RoofData.load(): the data of the BBIM_Roof property set
RoofData_load(ps) == [is_loaded |-> TRUE, path_data |-> ps.path_data]

\* refresh()
refresh(rd) == [rd EXCEPT !.is_loaded = FALSE]

----------------------------------------------------------------------------
(* generate_hipped_roof and update_roof_modifier_bmesh *)

\* extrude_face_region on all faces, then the extruded vertices moved up by
\* 0.1: every vertex gets a copy, every face a copy, every boundary edge a
\* side face; the faces extruded from stay, turned over.
Extrude(m) ==
    LET n == Len(m.verts)
        boundary == Ascending({k \in DOMAIN m.edges : FaceCount(m, k) = 1})
        bottoms == [k \in DOMAIN m.faces |->
                      [j \in DOMAIN m.faces[k] |-> m.faces[k][Len(m.faces[k]) + 1 - j]]]
        tops == [k \in DOMAIN m.faces |-> [j \in DOMAIN m.faces[k] |-> m.faces[k][j] + n]]
        sides == [k \in DOMAIN boundary |->
                    LET e == m.edges[boundary[k]].v
                    IN <<e[1], e[2], e[2] + n, e[1] + n>>]
        base == [verts |-> m.verts \o [i \in DOMAIN m.verts |->
                                          VAdd(m.verts[i], <<0, 0, ExtrudeZ>>)],
                 edges |-> m.edges, faces |-> <<>>]
    IN AddFaces(base, bottoms \o tops \o sides, 1)

\* The roof is built in a clean bmesh and extruded
HippedBuild(roof_polygon, roof) ==
    [outcome |-> "finished", stage |-> "done",
     roof_polygon |-> roof_polygon, roof |-> roof, mesh |-> Extrude(roof)]

HippedSkeleton(roof_polygon, skel) ==
    HippedBuild(roof_polygon, AddGeometry(EmptyMesh, skel.verts, skel.faces))

HippedPolygon(roof_polygon, slope) == HippedSkeleton(roof_polygon, polyskel(roof_polygon, slope))

\* max(closed_polygons.geoms, ...) raises ValueError when there is none
HippedExtract(closed_polygons, slope) ==
    IF closed_polygons = <<>>
    THEN [outcome |-> "raised", stage |-> "extract"]
    ELSE HippedPolygon(NormalizeOrientation(MaxAreaRing(closed_polygons)), slope)

\* generate_hipped_roof(obj, mode, height, angle), reading the edges of
\* obj.data (data)
generate_hipped_roof(data, mode, height, angle) ==
    HippedExtract(Polygonize([k \in DOMAIN data.edges |->
                                 <<data.verts[data.edges[k].v[1]],
                                   data.verts[data.edges[k].v[2]]>>]),
                  SlopeArgs(mode, height, angle))

\* The polygon with shell rs[j]; the polygonizer hands out its holes
\* counter-clockwise
PolygonOf(rs, j) ==
    [exterior |-> rs[j],
     interiors |-> [k \in DOMAIN KeepIdx(rs, HolesOf(rs, j), 1) |->
                       ReverseRing(KeepIdx(rs, HolesOf(rs, j), 1)[k])]]

\* roof_polygon = max(closed_polygons.geoms, ...), with its interiors
RoofPolygon(rs) == PolygonOf(rs, CHOOSE j \in DOMAIN rs : rs[j] = MaxAreaRing(rs))

\* if not shapely.is_ccw(roof_polygon): roof_polygon = roof_polygon.reverse()
\* reverses every ring of the polygon
Oriented(roof_polygon) ==
    [exterior |-> NormalizeOrientation(roof_polygon.exterior),
     interiors |-> [k \in DOMAIN roof_polygon.interiors |->
                       IF ~is_ccw(roof_polygon) THEN ReverseRing(roof_polygon.interiors[k])
                       ELSE roof_polygon.interiors[k]]]

\* InnerLoops with next_index left where it started
RECURSIVE InnerLoopsStuck(_, _, _, _)
InnerLoopsStuck(interiors, k, next_index, acc) ==
    IF k > Len(interiors) THEN acc
    ELSE InnerLoopsStuck(interiors, k + 1, next_index,
                         [verts |-> acc.verts \o interiors[k],
                          inner_loops |->
                             [none |-> FALSE,
                              loops |-> Append(IF acc.inner_loops.none THEN <<>>
                                               ELSE acc.inner_loops.loops,
                                               <<next_index, Len(interiors[k])>>)]])

\* for interior in roof_polygon.interiors: verts is extended by the loop and
\* inner_loops by (next_index, total_verts); inner_loops stays None when
\* there is no interior
RECURSIVE InnerLoops(_, _, _, _)
InnerLoops(interiors, k, next_index, acc) ==
    IF k > Len(interiors) THEN acc
    ELSE InnerLoops(interiors, k + 1, next_index + Len(interiors[k]),
                    [verts |-> acc.verts \o interiors[k],
                     inner_loops |->
                        [none |-> FALSE,
                         loops |-> Append(IF acc.inner_loops.none THEN <<>>
                                          ELSE acc.inner_loops.loops,
                                          <<next_index, Len(interiors[k])>>)]])

\* The arguments of bpypolyskel.polygonize(verts, start_exterior_index,
\* total_exterior_verts, inner_loops, height, angle, faces, unit_vectors)
PolygonizeArguments(roof_polygon, slope) ==
    [outcome |-> "called", stage |-> "skeleton",
     roof_polygon |-> roof_polygon,
     start_exterior_index |-> 0,
     total_exterior_verts |-> Len(roof_polygon.exterior),
     height |-> slope.height, angle |-> slope.tan]
    @@ InnerLoops(roof_polygon.interiors, 1, Len(roof_polygon.exterior),
                  [verts |-> roof_polygon.exterior, inner_loops |-> [none |-> TRUE]])

\* generate_hipped_roof and generate_gable_roof from the boundary lines to
\* the call of the skeleton generator
GeneratorCall(closed_polygons, slope) ==
    IF closed_polygons = <<>> THEN [outcome |-> "raised", stage |-> "extract"]
    ELSE PolygonizeArguments(Oriented(RoofPolygon(closed_polygons)), slope)

BoundaryLines(data) ==
    [k \in DOMAIN data.edges |->
        <<data.verts[data.edges[k].v[1]], data.verts[data.edges[k].v[2]]>>]

\* The part of the state that the operators on a roof object work on
Session ==
    [mesh |-> mesh, editmesh |-> editmesh, objmode |-> objmode, props |-> props,
     pset |-> pset, roofData |-> roofData, unit |-> unit,
     installed |-> installed, handlers |-> handlers]

\* tool.Blender.get_bmesh_for_mesh(obj.data): the edit-mode bmesh in EDIT
\* mode, a bmesh read from obj.data otherwise
get_bmesh_for_mesh(S) == IF S.objmode = "EDIT" THEN S.editmesh ELSE S.mesh

\* get_bmesh_for_mesh(obj.data, clean=True): the edit-mode bmesh is cleared
\* in place
CleanBmesh(S) == IF S.objmode = "EDIT" THEN [S EXCEPT !.editmesh = EmptyMesh] ELSE S

\* tool.Blender.apply_bmesh(obj.data, bm)
apply_bmesh(S, bm) ==
    IF S.objmode = "EDIT" THEN [S EXCEPT !.editmesh = bm] ELSE [S EXCEPT !.mesh = bm]

\* obj.update_from_editmode()
update_from_editmode(S) == [S EXCEPT !.mesh = S.editmesh]

\* bpy.ops.object.mode_set(mode=...)
mode_set_EDIT(S) ==
    IF S.objmode # "EDIT" THEN [S EXCEPT !.objmode = "EDIT", !.editmesh = S.mesh] ELSE S

mode_set_OBJECT(S) ==
    IF S.objmode = "EDIT"
    THEN [S EXCEPT !.objmode = "OBJECT", !.mesh = S.editmesh, !.editmesh = EmptyMesh]
    ELSE S

\* How an operator ended, with the state it left
Ended(S, outcome, stage) == [outcome |-> outcome, stage |-> stage, S |-> S]

\* generate_hipped_roof ended as r tells
ModifierGenerated(S, r) ==
    IF r.outcome = "raised"
    THEN Ended(S, "raised", "extract")
    ELSE Ended(apply_bmesh(CleanBmesh(S), r.mesh), "finished", "done")

\* height and angle are multiplied by si_conversion
ModifierGenerate(S) ==
    ModifierGenerated(S, generate_hipped_roof(S.mesh, S.props.generation_method,
                                              FromProject(S.props.height, S.unit),
                                              FromProject(S.props.angle, S.unit)))

\* ModifierPath going on to generate the roof while the path is edited
ModifierPathOn(S) ==
    IF S.roofData.path_data.none
    THEN Ended(S, "raised", "path")
    ELSE ModifierGenerate(apply_bmesh(S, dissolve_limit(PathMesh(S.roofData.path_data, S.unit))))

\* The path is built in the clean bmesh; path_data["verts"] of None raises
\* TypeError
ModifierPath(S) ==
    IF S.roofData.path_data.none
    THEN Ended(S, "raised", "path")
    ELSE IF S.props.is_editing_path
    THEN Ended(apply_bmesh(S, PathMesh(S.roofData.path_data, S.unit)), "finished", "path")
    ELSE ModifierGenerate(apply_bmesh(S, dissolve_limit(PathMesh(S.roofData.path_data, S.unit))))

ModifierLoad(S) ==
    IF ~S.roofData.is_loaded THEN [S EXCEPT !.roofData = RoofData_load(S.pset)] ELSE S

update_roof_modifier_bmesh(S) == ModifierPath(CleanBmesh(ModifierLoad(S)))

----------------------------------------------------------------------------
(* ProfileDecorator and the operators of a roof object *)

\* ProfileDecorator.uninstall(): removing a handler that is not registered
\* raises ValueError, which is passed over
ProfileDecorator_uninstall(S) ==
    [S EXCEPT !.handlers = S.handlers \ {S.installed}, !.installed = None]

\* ProfileDecorator.install without the uninstall of what is installed
ProfileDecorator_install_over(S) ==
    LET handler == CHOOSE h \in 1..(Cardinality(S.handlers) + 1) : h \notin S.handlers
    IN [S EXCEPT !.installed = handler, !.handlers = S.handlers \cup {handler}]

\* ProfileDecorator.install(context): draw_handler_add returns a handle that
\* is none of those registered; handles are numbered from 1, the number of
\* a removed one is free again
ProfileDecorator_install(S) ==
    LET S1 == IF S.installed # None THEN ProfileDecorator_uninstall(S) ELSE S
        handler == CHOOSE h \in 1..(Cardinality(S1.handlers) + 1) : h \notin S1.handlers
    IN [S1 EXCEPT !.installed = handler, !.handlers = S1.handlers \cup {handler}]

\* get_path_data(obj) with its effects on the object: obj.data is brought
\* up to date in EDIT mode, where the bmesh worked on is the edit-mode one
PathDataRead(S) ==
    [path_data |-> get_path_data(get_bmesh_for_mesh(S), S.unit),
     S |-> IF S.objmode = "EDIT" THEN [S EXCEPT !.editmesh = PathBmesh(S.editmesh)] ELSE S]

get_path_data_of(S) ==
    PathDataRead(IF S.objmode = "EDIT" THEN update_from_editmode(S) ELSE S)

\* The record is written, RoofData refreshed and the mesh regenerated
AddRoofWrite(S, p1, path_data) ==
    update_roof_modifier_bmesh(
        [S EXCEPT !.props = p1,
                  !.pset = update_bbim_roof_pset(get_general_kwargs(p1), path_data),
                  !.roofData = refresh(S.roofData)])

AddRoofPath(p1, got) ==
    AddRoofWrite(got.S, p1,
                 IF got.path_data.none THEN DefaultPath(got.S.unit) ELSE got.path_data)

AddRoof(S) ==
    AddRoofPath(IF ~S.props.roof_added_previously
                THEN convert_property_group_from_si(S.props, S.unit) ELSE S.props,
                get_path_data_of(S))

\* setattr(props, prop_name, data[prop_name]) for every prop_name of data
SetFromData(p, data, fmt) ==
    [p EXCEPT !.generation_method = data.generation_method,
              !.height = data.height,
              !.angle = data.angle,
              !.path_data = [fmt |-> fmt, data |-> data.path_data]]

EnableEditingRoof(S) ==
    Ended([S EXCEPT !.props = [SetFromData(S.props, S.pset, "json") EXCEPT !.is_editing = 1]],
          "finished", "done")

\* CancelEditingRoof without the loop that restores the properties
CancelEditingRoofKeep(S, body, strict) ==
    Ended([S EXCEPT !.props.is_editing = -1, !.mesh = body], "finished", "done")

\* body: the mesh that switch_representation loads from the Body
\* representation of the element.  path_data is the last key of the data
\* and is assigned as the dict json.loads gave: a property that takes only
\* strings (strict) raises TypeError there, after the other properties
\* were restored.
CancelEditingRoof(S, body, strict) ==
    IF strict
    THEN Ended([S EXCEPT !.props = [SetFromData(S.props, S.pset, "json") EXCEPT
                                       !.path_data = S.props.path_data]],
               "raised", "setattr")
    ELSE Ended([S EXCEPT !.props = [SetFromData(S.props, S.pset, "dict") EXCEPT
                                       !.is_editing = -1],
                         !.mesh = body],
               "finished", "done")

FinishEditingRoofWrite(S) ==
    Ended([S EXCEPT !.props.is_editing = -1,
                    !.pset = update_bbim_roof_pset(get_general_kwargs(S.props),
                                                   S.roofData.path_data)],
          "finished", "done")

FinishEditingRoof(S) == FinishEditingRoofWrite(ModifierLoad(S))

\* ProfileDecorator.install takes (cls, context): the call with
\* get_custom_bmesh and draw_faces raises TypeError
EnableEditingRoofPathInstall(r) ==
    IF r.outcome = "raised" THEN r
    ELSE Ended(mode_set_EDIT(r.S), "raised", "install")

EnableEditingRoofPath(S) ==
    EnableEditingRoofPathInstall(
        update_roof_modifier_bmesh([S EXCEPT !.props.is_editing_path = TRUE]))

\* if bpy.context.object.mode == "EDIT": mode_set(mode="OBJECT")
LeaveEditMode(r) ==
    IF r.outcome = "raised" THEN r
    ELSE Ended(mode_set_OBJECT(r.S), "finished", "done")

CancelEditingRoofPath(S) ==
    LeaveEditMode(update_roof_modifier_bmesh(
        [ProfileDecorator_uninstall(S) EXCEPT !.props.is_editing_path = FALSE]))

FinishEditingRoofPathWrite(roof_data, got) ==
    LeaveEditMode(update_roof_modifier_bmesh(
        [ProfileDecorator_uninstall(got.S) EXCEPT
            !.props.is_editing_path = FALSE,
            !.pset = update_bbim_roof_pset(roof_data, got.path_data),
            !.roofData = refresh(got.S.roofData)]))

FinishEditingRoofPath(S) ==
    FinishEditingRoofPathWrite(get_general_kwargs(S.props), get_path_data_of(S))

RemoveRoof(S) ==
    Ended([S EXCEPT !.props.is_editing = -1,
                    !.pset = NoPset,
                    !.props.roof_added_previously = TRUE],
          "finished", "done")

----------------------------------------------------------------------------
(* Specification Spec: the edit sessions of one roof object *)

\* paths a user draws: a square of 4 m, an oblong of 8 m by 4 m
PathSquare ==
    WireMesh(<<<<0, 0, 0>>, <<40000, 0, 0>>, <<40000, 40000, 0>>, <<0, 40000, 0>>>>, Loop4)
PathOblong ==
    WireMesh(<<<<0, 0, 0>>, <<80000, 0, 0>>, <<80000, 40000, 0>>, <<0, 40000, 0>>>>, Loop4)

\* the square with a crease of 1 set on its first edge
PathSquareCreased == [PathSquare EXCEPT !.edges[1].crease = CreaseDen]

\* the square (0,0), (10,0), (10,10), (0,10), in metres
PathSquare10 ==
    WireMesh(<<<<0, 0, 0>>, <<100000, 0, 0>>, <<100000, 100000, 0>>, <<0, 100000, 0>>>>,
             Loop4)

\* the square with a vertex in the middle of its first side
PathSquareMid ==
    WireMesh(<<<<0, 0, 0>>, <<20000, 0, 0>>, <<40000, 0, 0>>, <<40000, 40000, 0>>,
               <<0, 40000, 0>>>>,
             <<<<1, 2>>, <<2, 3>>, <<3, 4>>, <<4, 5>>, <<5, 1>>>>)

\* what the user leaves in the edit-mode mesh: a path, or nothing at all
EditedPaths ==
    {EmptyMesh, PathSquare, PathOblong, PathSquareCreased, PathSquare10, PathSquareMid}

\* the heights a user enters, 1 m and 2 m in project units
HeightChoices(u) == {ToProject(10000, u), ToProject(20000, u)}

Init ==
    /\ mesh \in {EmptyMesh, PathSquare}
    /\ gen = NoGen
    /\ unit \in UnitValues
    /\ SessionIdle
    /\ last = [op |-> "init", outcome |-> "none", stage |-> "none", edited |-> FALSE]

\* The operators that start an edit session: nothing is edited yet
EditStarts == {"EnableEditingRoof", "EnableEditingRoofPath"}

\* The operator op ended as r tells; last.edited tells whether the user
\* changed something since the edit session started
Do(op, r) ==
    /\ mesh' = r.S.mesh
    /\ editmesh' = r.S.editmesh
    /\ objmode' = r.S.objmode
    /\ props' = r.S.props
    /\ pset' = r.S.pset
    /\ roofData' = r.S.roofData
    /\ installed' = r.S.installed
    /\ handlers' = r.S.handlers
    /\ last' = [op |-> op, outcome |-> r.outcome, stage |-> r.stage,
                 edited |-> last.edited /\ op \notin EditStarts]
    /\ UNCHANGED <<gen, unit, prophet>>

\* The panel offers its operators on the object in OBJECT mode, one edit
\* session at a time
Idle ==
    /\ pset.exists /\ props.is_editing = -1 /\ ~props.is_editing_path
    /\ objmode = "OBJECT"

OpAddRoof ==
    /\ ~pset.exists /\ objmode = "OBJECT"
    /\ \E r \in {AddRoof(Session)} : Do("AddRoof", r)

OpEnableEditingRoof ==
    /\ Idle
    /\ Do("EnableEditingRoof", EnableEditingRoof(Session))

OpCancelEditingRoof ==
    /\ pset.exists /\ props.is_editing = 1
    /\ \E body \in {mesh, EmptyMesh}, strict \in BOOLEAN :
          Do("CancelEditingRoof", CancelEditingRoof(Session, body, strict))

OpFinishEditingRoof ==
    /\ pset.exists /\ props.is_editing = 1
    /\ Do("FinishEditingRoof", FinishEditingRoof(Session))

OpEnableEditingRoofPath ==
    /\ Idle
    /\ \E r \in {EnableEditingRoofPath(Session)} : Do("EnableEditingRoofPath", r)

OpCancelEditingRoofPath ==
    /\ pset.exists /\ props.is_editing_path
    /\ \E r \in {CancelEditingRoofPath(Session)} : Do("CancelEditingRoofPath", r)

OpFinishEditingRoofPath ==
    /\ pset.exists /\ props.is_editing_path
    /\ \E r \in {FinishEditingRoofPath(Session)} : Do("FinishEditingRoofPath", r)

OpRemoveRoof ==
    /\ Idle
    /\ Do("RemoveRoof", RemoveRoof(Session))

\* Another editor of the add-on installs the overlay
OpInstallDecorator ==
    /\ Do("ProfileDecorator.install", Ended(ProfileDecorator_install(Session), "finished", "done"))

\* The user leaves EDIT mode
UserObjectMode ==
    /\ objmode = "EDIT" /\ ~props.is_editing_path
    /\ Do("UserObjectMode", Ended(mode_set_OBJECT(Session), "finished", "done"))

\* The user redraws the path in EDIT mode
UserEditPath(p) ==
    /\ props.is_editing_path /\ objmode = "EDIT"
    /\ editmesh # p
    /\ editmesh' = p
    /\ last' = [op |-> "UserEditPath", outcome |-> "finished", stage |-> "done", edited |-> TRUE]
    /\ UNCHANGED <<mesh, gen, props, pset, roofData, installed, handlers, objmode, unit, prophet>>

\* The user changes the parameters of the roof in the panel
UserSetHeight(h) ==
    /\ props.is_editing = 1
    /\ props.height # h
    /\ props' = [props EXCEPT !.height = h]
    /\ last' = [op |-> "UserSetHeight", outcome |-> "finished", stage |-> "done", edited |-> TRUE]
    /\ UNCHANGED <<mesh, editmesh, gen, pset, roofData, installed, handlers, objmode, unit,
                   prophet>>

UserSetMethod(m) ==
    /\ props.is_editing = 1
    /\ props.generation_method # m
    /\ props' = [props EXCEPT !.generation_method = m]
    /\ last' = [op |-> "UserSetMethod", outcome |-> "finished", stage |-> "done", edited |-> TRUE]
    /\ UNCHANGED <<mesh, editmesh, gen, pset, roofData, installed, handlers, objmode, unit,
                   prophet>>

Next ==
    \/ OpAddRoof
    \/ OpEnableEditingRoof
    \/ OpCancelEditingRoof
    \/ OpFinishEditingRoof
    \/ OpEnableEditingRoofPath
    \/ OpCancelEditingRoofPath
    \/ OpFinishEditingRoofPath
    \/ OpRemoveRoof
    \/ OpInstallDecorator
    \/ UserObjectMode
    \/ \E p \in EditedPaths : UserEditPath(p)
    \/ \E h \in HeightChoices(unit) : UserSetHeight(h)
    \/ \E m \in ModeValues : UserSetMethod(m)

Spec == Init /\ [][Next]_vars

----------------------------------------------------------------------------
(* Specification SpecInputs: what the generators make of the mesh they are  *)
(* given, up to the call of the skeleton generator                          *)

\* bmesh_join: the geometry of b added to a
Join(a, b) ==
    [verts |-> a.verts \o b.verts,
     edges |-> a.edges \o [k \in DOMAIN b.edges |->
                             [b.edges[k] EXCEPT !.v = <<@[1] + Len(a.verts),
                                                        @[2] + Len(a.verts)>>]],
     faces |-> <<>>]

Box(x0, y0, x1, y1) ==
    WireMesh(<<<<x0, y0, 0>>, <<x1, y0, 0>>, <<x1, y1, 0>>, <<x0, y1, 0>>>>, Loop4)

\* the outer boundary drawn: a square either way round, a triangle, a
\* square with one side missing, or none
Shells ==
    {Box(0, 0, 60, 60),
     WireMesh(Box(0, 0, 60, 60).verts, <<<<1, 4>>, <<4, 3>>, <<3, 2>>, <<2, 1>>>>),
     WireMesh(<<<<0, 0, 0>>, <<120, 0, 0>>, <<0, 160, 0>>>>, <<<<1, 2>>, <<2, 3>>, <<3, 1>>>>),
     WireMesh(Box(0, 0, 60, 60).verts, <<<<1, 2>>, <<2, 3>>, <<3, 4>>>>),
     EmptyMesh}

\* what else is drawn: two small loops, a large loop around them, a
\* segment ending in the corner (60, 60), a segment apart, and two segments
\* on top of each other
Parts ==
    <<Box(10, 10, 20, 20), Box(30, 30, 40, 40), Box(5, 5, 55, 55),
      WireMesh(<<<<60, 60, 0>>, <<70, 70, 0>>>>, <<<<1, 2>>>>),
      WireMesh(<<<<200, 0, 0>>, <<210, 0, 0>>>>, <<<<1, 2>>>>),
      WireMesh(<<<<200, 20, 0>>, <<210, 20, 0>>, <<200, 20, 0>>, <<210, 20, 0>>>>,
               <<<<1, 2>>, <<3, 4>>>>)>>

RECURSIVE Drawn(_, _, _)
Drawn(m, picked, i) ==
    IF i > Len(Parts) THEN m
    ELSE Drawn(IF i \in picked THEN Join(m, Parts[i]) ELSE m, picked, i + 1)

\* heights of vertices around the tolerance of float_is_zero
ZValues == {-2, -1, 0, 1, 2}

\* the triangle with its vertices at the heights zs
Lifted(zs) ==
    WireMesh(<<<<0, 0, zs[1]>>, <<120, 0, zs[2]>>, <<0, 160, zs[3]>>>>,
             <<<<1, 2>>, <<2, 3>>, <<3, 1>>>>)

Drawings ==
    {Drawn(shell, picked, 1) : shell \in Shells, picked \in SUBSET DOMAIN Parts}
        \cup {Lifted(zs) : zs \in [1..3 -> ZValues]}

\* generation methods passed as mode: the two of the enumeration and another
GenerationMethods == ModeValues \cup {"OTHER"}

InitInputs ==
    /\ mesh \in Drawings
    /\ gen = NoGen
    /\ unit = 10000
    /\ SessionIdle
    /\ last = [op |-> "init", outcome |-> "none"]

\* generate_gable_roof up to the end of the scan for the footprint vertices
ScanVerts ==
    /\ gen = NoGen
    /\ gen' = [outcome |-> "scanned"] @@ ScanFootprint(mesh.verts)
    /\ last' = [op |-> "scan", outcome |-> "finished"]
    /\ UNCHANGED <<mesh, session_vars>>

\* generate_hipped_roof up to the call of the skeleton generator
CallPolygonize ==
    /\ gen = NoGen
    /\ \E mode \in GenerationMethods, height \in HeightValues, angle \in AngleValues :
          \E r \in {GeneratorCall(Polygonize(BoundaryLines(mesh)),
                                  SlopeArgs(mode, height, angle))} :
              /\ gen' = [mode |-> mode, requested_height |-> height,
                         requested_angle |-> angle] @@ r
              /\ last' = [op |-> "polygonize", outcome |-> r.outcome]
    /\ UNCHANGED <<mesh, session_vars>>

NextInputs == ScanVerts \/ CallPolygonize

SpecInputs == InitInputs /\ [][NextInputs]_vars

----------------------------------------------------------------------------
(* Specification SpecProphecy: a Prophecy of the core tests is given calls  *)
(* and predictions and then verified                                       *)

\* The calls made on the prophet: name, args and kwargs taken together.
\* The args of "run" hold an object json.dumps refuses.
CallValues == {"get", "load", "run"}
Serializable(call) == call # "run"

\* At most this many calls are recorded and predictions made
MaxRecorded == 3
MaxPredictions == 2

\* number of should_be_called: None or a count
NoNumber == [none |-> TRUE]
Numbers == {NoNumber} \cup {[none |-> FALSE, n |-> k] : k \in 0..2}

\* "if prediction['number']": None and 0 are false
Truthy(number) == IF number.none THEN FALSE ELSE number.n # 0

\* self.calls.count(call)
CountOf(calls, call) == Cardinality({i \in DOMAIN calls : calls[i] = call})

\* decorate(*args, **kwargs): the call is recorded unless json.dumps raises
decorate(P, call) ==
    IF Serializable(call) THEN [P EXCEPT !.calls = Append(P.calls, call)] ELSE P

\* should_be_called(number): the call recorded last is taken off the calls
\* and becomes the prediction's call
should_be_called(P, number) ==
    [P EXCEPT !.should_call = P.calls[Len(P.calls)],
              !.calls = SubSeq(P.calls, 1, Len(P.calls) - 1),
              !.predictions = Append(P.predictions,
                                     [type |-> "SHOULD_BE_CALLED", number |-> number,
                                      call |-> P.calls[Len(P.calls)]])]

\* will_return(value): the value is kept under the key of should_call
will_return(P) == [P EXCEPT !.return_values = P.return_values \cup {P.should_call}]

\* verify_should_be_called(prediction): the exception raised, or "ok"
verify_should_be_called(P, prediction) ==
    IF Truthy(prediction.number)
    THEN IF CountOf(P.calls, prediction.call) # prediction.number.n THEN "Called" ELSE "ok"
    ELSE IF \A i \in DOMAIN P.calls : P.calls[i] # prediction.call THEN "was not called"
    ELSE "ok"

\* verify(): the predictions are verified in order, then every recorded
\* call is looked up among the predicted calls; the first exception ends it
verify(P) ==
    IF \E i \in DOMAIN P.predictions : verify_should_be_called(P, P.predictions[i]) # "ok"
    THEN [outcome |-> "raised",
          stage |-> verify_should_be_called(P, P.predictions[
                        CHOOSE i \in DOMAIN P.predictions :
                            /\ verify_should_be_called(P, P.predictions[i]) # "ok"
                            /\ \A j \in 1..(i - 1) :
                                  verify_should_be_called(P, P.predictions[j]) = "ok"])]
    ELSE IF \E i \in DOMAIN P.calls : \A j \in DOMAIN P.predictions :
                P.predictions[j].call # P.calls[i]
    THEN [outcome |-> "raised", stage |-> "Unpredicted call"]
    ELSE [outcome |-> "finished", stage |-> "done"]

InitProphecy ==
    /\ mesh = EmptyMesh
    /\ gen = NoGen
    /\ unit = 10000
    /\ SessionIdle
    /\ last = [op |-> "init", outcome |-> "none", stage |-> "none"]

roof_vars == <<mesh, editmesh, gen, props, pset, roofData, installed, handlers, objmode, unit>>

\* The test, or the code under test, calls the prophet: a method the subject
\* has, with arguments its signature takes
ProphetCall(call) ==
    /\ last.op # "verify"
    /\ Len(prophet.calls) < MaxRecorded
    /\ prophet' = decorate(prophet, call)
    /\ last' = [op |-> "decorate", outcome |-> "finished", stage |-> "done"]
    /\ UNCHANGED roof_vars

\* The test makes a prediction of the call recorded last; with no call
\* recorded calls.pop() raises IndexError
ProphetShouldBeCalled(number) ==
    /\ last.op # "verify"
    /\ Len(prophet.predictions) < MaxPredictions
    /\ IF prophet.calls = <<>>
       THEN /\ last' = [op |-> "should_be_called", outcome |-> "raised", stage |-> "pop"]
            /\ UNCHANGED prophet
       ELSE /\ prophet' = should_be_called(prophet, number)
            /\ last' = [op |-> "should_be_called", outcome |-> "finished", stage |-> "done"]
    /\ UNCHANGED roof_vars

\* The test gives the predicted call a return value
ProphetWillReturn ==
    /\ last.op = "should_be_called" /\ last.outcome = "finished"
    /\ prophet' = will_return(prophet)
    /\ last' = [op |-> "will_return", outcome |-> "finished", stage |-> "done"]
    /\ UNCHANGED roof_vars

\* The fixture verifies the prophet when the test is over
ProphetVerify ==
    /\ last.op # "verify"
    /\ last' = [op |-> "verify"] @@ verify(prophet)
    /\ UNCHANGED <<prophet, roof_vars>>

NextProphecy ==
    \/ \E call \in CallValues : ProphetCall(call)
    \/ \E number \in Numbers : ProphetShouldBeCalled(number)
    \/ ProphetWillReturn
    \/ ProphetVerify

SpecProphecy == InitProphecy /\ [][NextProphecy]_vars

----------------------------------------------------------------------------
(* Properties of the regeneration and of the edit sessions *)

\* C1: a call of generate_gable_roof that fails while the boundary is
\* extracted or the skeleton generated leaves the mesh of the object as it
\* was before the call (SpecGable).
C1_FailedRegenerationKeepsMesh ==
    (gen.outcome = "raised" /\ gen.stage = "extract") => mesh = gen.before

\* C2: when FinishEditingRoofPath fails, the session is still in path
\* editing, the overlay is as it was and the persisted record is the one
\* committed before (Spec).
C2_FailedCommitKeepsSession ==
    [][(last'.op = "FinishEditingRoofPath" /\ last'.outcome = "raised")
          => (props'.is_editing_path /\ installed' = installed
              /\ handlers' = handlers /\ pset' = pset)]_vars

\* C3: when the mesh read by get_path_data yields no path, AddRoof and
\* FinishEditingRoofPath write the default rectangle and finish (Spec).
C3_NoPolygonFallsBackToDefault ==
    [][(last'.op \in {"AddRoof", "FinishEditingRoofPath"}
        /\ get_path_data_of(Session).path_data.none)
          => (last'.outcome = "finished" /\ pset'.path_data = DefaultPath(unit))]_vars

\* The non-zero crease values among the matches of a finished call
MatchedCreases(g) ==
    {g.edges_match[i].crease : i \in DOMAIN g.edges_match} \ {0}

\* C4: a regeneration that follows a finished one, on the footprint left
\* by it, finishes, and matches the non-zero crease values the earlier one
\* matched (SpecGable).
C4_CreasesSurviveRegeneration ==
    [][(gen.outcome = "finished" /\ MatchedCreases(gen) # {} /\ gen' # gen)
          => (gen'.outcome = "finished" /\ MatchedCreases(gen') = MatchedCreases(gen))]_vars

\* The snapshot vertices within tolerance of co lowered by dz, as positions
\* in the enumeration of the snapshot
NearPositions(snap, dz, co) ==
    {j \in DOMAIN snap.verts : LengthIsZero(VSub(VSub(co, <<0, 0, dz>>), snap.verts[j]))}

\* all of them, by index in the mesh
AllNear(snap, dz, co) == {snap.fpv[j] : j \in NearPositions(snap, dz, co)}

\* the first of them in enumeration order, by index in the mesh
FirstNear(snap, dz, co) ==
    LET near == NearPositions(snap, dz, co)
    IN IF near = {} THEN None ELSE snap.fpv[CHOOSE j \in near : \A k \in near : j <= k]

\* The two ends of edge k of the generated mesh of the call g
EndA(g, k) == g.generated.verts[g.generated.edges[k].v[1]]
EndB(g, k) == g.generated.verts[g.generated.edges[k].v[2]]
Dz(g) == debug_z_distance(g.leave_footprint)

\* The snapshot edges whose endpoint set is the pair of the first near
\* vertices of the ends of k, and those whose endpoint set is the set of all
\* near vertices
Counterparts(g, k) ==
    {i \in DOMAIN g.snap.edges :
        g.snap.edges[i] = {FirstNear(g.snap, Dz(g), EndA(g, k)),
                           FirstNear(g.snap, Dz(g), EndB(g, k))}}

CounterpartsAmongAll(g, k) ==
    {i \in DOMAIN g.snap.edges :
        g.snap.edges[i] = AllNear(g.snap, Dz(g), EndA(g, k))
                            \cup AllNear(g.snap, Dz(g), EndB(g, k))}

MatchesOf(g, k) == {x \in Range(g.edges_match) : x.edge = k}

\* The vertices opposite edge k, and the vertices opposite a matched edge
\* with a non-zero crease
OppositeOf(g, k) == Range(find_other_polygon_verts_i(g.generated, g.generated.edges[k]))

Overridden(g) ==
    {v \in DOMAIN g.generated.verts :
        \E x \in Range(g.edges_match) : x.crease # 0 /\ v \in OppositeOf(g, x.edge)}

\* C5, as stated: a new footprint edge is matched with an old edge exactly
\* when the set of all snapshot vertices within tolerance of its ends is the
\* endpoint set of the old edge, and the vertices opposite an unmatched
\* edge stay where generation put them (SpecGable).
C5_MatchIffAllNearEqual ==
    gen.outcome = "finished" =>
        \A k \in Range(gen.footprint_edges) :
            /\ \A i \in DOMAIN gen.snap.edges :
                  (\E x \in MatchesOf(gen, k) : x.old = i) <=> i \in CounterpartsAmongAll(gen, k)
            /\ MatchesOf(gen, k) = {}
                  => \A v \in OppositeOf(gen, k) : mesh.verts[v] = gen.generated.verts[v]

\* C5, amended: a new footprint edge is matched with an old edge exactly
\* when the first snapshot vertices within tolerance of its two ends make
\* the endpoint set of the old edge (the first such old edge), with the
\* crease of that edge; a vertex that is opposite no matched edge with a
\* non-zero crease stays where generation put it (SpecGable).
C5_MatchIffFirstNearEqual ==
    gen.outcome = "finished" =>
        /\ \A k \in Range(gen.footprint_edges) :
              MatchesOf(gen, k) =
                  IF Counterparts(gen, k) = {} THEN {}
                  ELSE LET i == CHOOSE i \in Counterparts(gen, k) :
                                    \A j \in Counterparts(gen, k) : i <= j
                       IN {[edge |-> k, old |-> i, crease |-> gen.snap.crease_values[i]]}
        /\ \A v \in DOMAIN gen.generated.verts :
              v \notin Overridden(gen) => mesh.verts[v] = gen.generated.verts[v]

\* An end of a new footprint edge has two snapshot vertices within
\* tolerance, one edge is matched with a crease and another is not matched
C5_Witness ==
    /\ gen.outcome = "finished"
    /\ \E k \in Range(gen.footprint_edges) :
          /\ Cardinality(NearPositions(gen.snap, Dz(gen), EndA(gen, k))) > 1
          /\ MatchesOf(gen, k) = {}
    /\ \E x \in Range(gen.edges_match) : x.crease # 0
    /\ mesh # gen.generated

Reversed(q) == [i \in DOMAIN q |-> q[Len(q) + 1 - i]]

\* The snapshot with its vertices, and with its edges, enumerated backwards
VertsReversed(snap) == [snap EXCEPT !.fpv = Reversed(@), !.verts = Reversed(@)]

EdgesReversed(snap) ==
    [snap EXCEPT !.edges = Reversed(@), !.crease_values = Reversed(@), !.lines = Reversed(@)]

\* The matches the matcher finds for the generated mesh of g, as pairs of
\* the new edge and the endpoint set of the old edge
MatchPairs(g, snap, fe) ==
    {<<x.edge, snap.edges[x.old]>> :
        x \in Range(MatchLoop(g.generated, snap, Dz(g), fe, 1,
                              [edges_match |-> <<>>,
                               verts_to_change |-> g.generated.verts]).edges_match)}

OrderIndependent(g) ==
    \A pairs \in {MatchPairs(g, VertsReversed(g.snap), g.footprint_edges),
                  MatchPairs(g, EdgesReversed(g.snap), g.footprint_edges),
                  MatchPairs(g, g.snap, Reversed(g.footprint_edges))} :
        pairs = {<<x.edge, g.snap.edges[x.old]>> : x \in Range(g.edges_match)}

\* No end of a new footprint edge is within tolerance of two snapshot
\* vertices, and no two snapshot edges have the same ends
Unambiguous(g) ==
    /\ \A k \in Range(g.footprint_edges) :
          /\ Cardinality(NearPositions(g.snap, Dz(g), EndA(g, k))) <= 1
          /\ Cardinality(NearPositions(g.snap, Dz(g), EndB(g, k))) <= 1
    /\ \A i, j \in DOMAIN g.snap.edges : g.snap.edges[i] = g.snap.edges[j] => i = j

\* C6, as stated: the matches are the same whichever way the snapshot
\* vertices, the snapshot edges and the new footprint edges are enumerated
\* (SpecGable).
C6_MatchesOrderIndependent ==
    gen.outcome = "finished" => OrderIndependent(gen)

\* C6, amended: the matches are the same whichever way the snapshot
\* vertices, the snapshot edges and the new footprint edges are enumerated,
\* provided no end of a new footprint edge is within tolerance of more than
\* one snapshot vertex and no two snapshot edges have the same ends
\* (SpecGable).
C6_MatchesOrderIndependentUnambiguous ==
    (gen.outcome = "finished" /\ Unambiguous(gen)) => OrderIndependent(gen)

\* An unambiguous footprint with every edge matched, one with a crease
C6_Witness ==
    /\ gen.outcome = "finished"
    /\ Unambiguous(gen)
    /\ Len(gen.edges_match) = Len(gen.footprint_edges)
    /\ MatchedCreases(gen) # {}

\* The horizontal vector from the first end of edge k to its second end
Along(g, k) == <<EndB(g, k)[1] - EndA(g, k)[1], EndB(g, k)[2] - EndA(g, k)[2]>>

\* u . (p - a) and u x (p - a) in the plane
DotFrom(u, a, p) == u[1] * (p[1] - a[1]) + u[2] * (p[2] - a[2])
CrossFrom(u, a, p) == u[1] * (p[2] - a[2]) - u[2] * (p[1] - a[1])

\* The vertex at p is the vertex at o with its offset from the line of edge
\* k multiplied by 1 - c / CreaseDen, its coordinate along the edge and its
\* height kept, up to the rounding of the coordinates
Interpolated(g, k, c, o, p) ==
    /\ p[3] = o[3]
    /\ Abs(DotFrom(Along(g, k), EndA(g, k), p) - DotFrom(Along(g, k), EndA(g, k), o))
          <= Abs(Along(g, k)[1]) + Abs(Along(g, k)[2])
    /\ Abs(CreaseDen * CrossFrom(Along(g, k), EndA(g, k), p)
             - (CreaseDen - c) * CrossFrom(Along(g, k), EndA(g, k), o))
          <= CreaseDen * (Abs(Along(g, k)[1]) + Abs(Along(g, k)[2]))

\* C7: when one matched edge has a non-zero crease, every vertex opposite
\* it has its offset from the line of the edge multiplied by 1 - t, and its
\* coordinate along the edge and its height unchanged (SpecGable).
C7_OppositeVertexInterpolated ==
    gen.outcome = "finished" =>
        \A x \in Range(gen.edges_match) :
            (x.crease # 0 /\ \A y \in Range(gen.edges_match) : y.crease # 0 => y = x)
                => \A v \in OppositeOf(gen, x.edge) :
                       Interpolated(gen, x.edge, Abs(x.crease),
                                    gen.generated.verts[v], mesh.verts[v])

CommittedKwargs(ps) ==
    [generation_method |-> ps.generation_method, height |-> ps.height, angle |-> ps.angle]

\* C10: CancelEditingRoof and CancelEditingRoofPath leave the persisted
\* record as it is; afterwards the properties of the roof are those of the
\* record, and so is the path: the one in the properties after
\* CancelEditingRoof, the one update_roof_modifier_bmesh rebuilds from after
\* CancelEditingRoofPath (Spec).
C10_CancelRestoresCommitted ==
    [][(last'.op \in {"CancelEditingRoof", "CancelEditingRoofPath"})
          => /\ pset' = pset
             /\ get_general_kwargs(props') = CommittedKwargs(pset)
             /\ last'.op = "CancelEditingRoof" => props'.path_data.data = pset.path_data
             /\ last'.op = "CancelEditingRoofPath"
                   => /\ roofData'.is_loaded
                      /\ roofData'.path_data = pset.path_data
                      /\ ~props'.is_editing_path]_vars

\* The path is cancelled after the user edited it
C10_Witness ==
    /\ last.op = "CancelEditingRoofPath"
    /\ last.outcome = "finished"
    /\ last.edited
    /\ ~pset.path_data.none
    /\ roofData.path_data = pset.path_data
    /\ get_general_kwargs(props) = CommittedKwargs(pset)

\* C11: a FinishEditingRoofPath that completes leaves path editing, and the
\* record read back afterwards gives the committed path again: its vertices
\* and edges, and the crease set on each edge (Spec).
C11_CommitPersistsPathAndOverrides ==
    [][(last'.op = "FinishEditingRoofPath" /\ last'.outcome = "finished")
          => /\ ~props'.is_editing_path
             /\ ~RoofData_load(pset').path_data.none
             /\ PathMesh(RoofData_load(pset').path_data, unit)
                    = PathBmesh(get_bmesh_for_mesh(Session))]_vars

\* the same for the vertices and the edges alone
C11_CommitPersistsPath ==
    [][(last'.op = "FinishEditingRoofPath" /\ last'.outcome = "finished")
          => /\ ~props'.is_editing_path
             /\ ~RoofData_load(pset').path_data.none
             /\ PathMesh(RoofData_load(pset').path_data, unit)
                    = WireMesh(PathBmesh(get_bmesh_for_mesh(Session)).verts,
                               [k \in DOMAIN PathBmesh(get_bmesh_for_mesh(Session)).edges |->
                                   PathBmesh(get_bmesh_for_mesh(Session)).edges[k].v])]_vars

\* The segments drawn, as pairs of points of the plane
Segments(m) ==
    {{XY(m.verts[m.edges[k].v[1]]), XY(m.verts[m.edges[k].v[2]])} : k \in DOMAIN m.edges}
        \ {{XY(m.verts[i])} : i \in DOMAIN m.verts}

RECURSIVE Reached(_, _)
Reached(segs, R) ==
    LET N == R \cup UNION {x \in segs : x \cap R # {}}
    IN IF N = R THEN R ELSE Reached(segs, N)

\* Some segment has its ends connected by the other segments
ClosesRing(m) ==
    \E x \in Segments(m) : \E p \in x : x \subseteq Reached(Segments(m) \ {x}, {p})

\* Some segment is open: its ends are not connected by the other segments
HasOpenSegment(m) ==
    \E x \in Segments(m) : \E p \in x : ~(x \subseteq Reached(Segments(m) \ {x}, {p}))

\* The segments are in more than one piece
Disconnected(m) ==
    \E x, y \in Segments(m) : Reached(Segments(m), x) \cap y = {}

C13_OneSlopeParameter ==
    (last.op = "polygonize" /\ gen.outcome = "called") =>
        /\ gen.height = 0 \/ gen.angle[1] = 0
        /\ IF gen.mode = "HEIGHT"
           THEN gen.height = gen.requested_height /\ gen.angle[1] = 0
           ELSE gen.height = 0 /\ gen.angle = TanDegrees(gen.requested_angle)

C13_Witness ==
    /\ last.op = "polygonize" /\ gen.outcome = "called"
    /\ gen.mode = "OTHER" /\ gen.requested_height # 0 /\ gen.angle[1] # 0

\* C14: the outer ring handed to the generator is counter-clockwise, and the
\* normalization step applied to the polygon it produced leaves the order
\* of the vertices as it is (SpecInputs).
C14_NormalizationIdempotent ==
    (last.op = "polygonize" /\ gen.outcome = "called") =>
        /\ Shoelace(gen.roof_polygon.exterior, 1, 1) > 0
        /\ Oriented(gen.roof_polygon) = gen.roof_polygon

\* the first half alone: the outer ring handed over is counter-clockwise
C14_OuterRingCounterClockwise ==
    (last.op = "polygonize" /\ gen.outcome = "called") =>
        Shoelace(gen.roof_polygon.exterior, 1, 1) > 0

\* C15: the hole descriptors partition the vertex array after the exterior
\* ring: the first starts at total_exterior_verts, each next one where the
\* one before ends, each count is the length of its loop, the last ends
\* with the array; without holes inner_loops is None (SpecInputs).
C15_HoleDescriptorsPartition ==
    (last.op = "polygonize" /\ gen.outcome = "called") =>
        /\ SubSeq(gen.verts, 1, gen.total_exterior_verts) = gen.roof_polygon.exterior
        /\ IF gen.roof_polygon.interiors = <<>>
           THEN gen.inner_loops.none /\ Len(gen.verts) = gen.total_exterior_verts
           ELSE /\ ~gen.inner_loops.none
                /\ Len(gen.inner_loops.loops) = Len(gen.roof_polygon.interiors)
                /\ gen.inner_loops.loops[1][1] = gen.total_exterior_verts
                /\ \A k \in DOMAIN gen.inner_loops.loops :
                      /\ gen.inner_loops.loops[k][2] = Len(gen.roof_polygon.interiors[k])
                      /\ SubSeq(gen.verts, gen.inner_loops.loops[k][1] + 1,
                                gen.inner_loops.loops[k][1] + gen.inner_loops.loops[k][2])
                            = gen.roof_polygon.interiors[k]
                      /\ IF k < Len(gen.inner_loops.loops)
                         THEN gen.inner_loops.loops[k + 1][1]
                                 = gen.inner_loops.loops[k][1] + gen.inner_loops.loops[k][2]
                         ELSE gen.inner_loops.loops[k][1] + gen.inner_loops.loops[k][2]
                                 = Len(gen.verts)

\* a polygon with two holes was passed
C15_Witness ==
    /\ last.op = "polygonize" /\ gen.outcome = "called"
    /\ Len(gen.roof_polygon.interiors) = 2
    /\ gen.inner_loops.loops = <<<<4, 4>>, <<8, 4>>>>

\* C17: after the scan the footprint vertices are the vertices of the mesh
\* within 1e-4 of its lowest z (SpecInputs).
C17_FootprintIsLowest ==
    (last.op = "scan" /\ mesh.verts # <<>>) =>
        Range(gen.verts)
            = {i \in DOMAIN mesh.verts :
                  \E j \in DOMAIN mesh.verts :
                      /\ \A k \in DOMAIN mesh.verts : mesh.verts[j][3] <= mesh.verts[k][3]
                      /\ mesh.verts[i][3] - mesh.verts[j][3] <= Tol}

\* The vertices of the mesh above the inside of the square PathSquare10
RidgeVertices(m) ==
    {i \in DOMAIN m.verts : /\ 0 < m.verts[i][1] /\ m.verts[i][1] < 100000
                             /\ 0 < m.verts[i][2] /\ m.verts[i][2] < 100000}

\* The edges of the mesh with both ends at z = 0
EaveEdges(m) ==
    {k \in DOMAIN m.edges : \A j \in 1..2 : m.verts[m.edges[k].v[j]][3] = 0}

\* C16: the roof generated in ANGLE mode at 45 degrees for the square
\* (0,0), (10,0), (10,10), (0,10) has one ridge vertex, at (5,5,5), 4 faces
\* and 4 eave edges at z = 0 (Spec, in a project in metres).
C16_SquareRoof ==
    (/\ last.op = "FinishEditingRoofPath" /\ last.outcome = "finished"
     /\ unit = 10000
     /\ pset.path_data = get_path_data(PathSquare10, unit)
     /\ props.generation_method = "ANGLE" /\ props.angle = 45000)
        => /\ \A i \in RidgeVertices(mesh) : mesh.verts[i] = <<50000, 50000, 50000>>
           /\ Cardinality(RidgeVertices(mesh)) = 1
           /\ Len(mesh.faces) = 4
           /\ Cardinality(EaveEdges(mesh)) = 4

\* the same with the roof extruded by 0.1 as generate_hipped_roof leaves it
C16_SquareRoofExtruded ==
    (/\ last.op = "FinishEditingRoofPath" /\ last.outcome = "finished"
     /\ unit = 10000
     /\ pset.path_data = get_path_data(PathSquare10, unit)
     /\ props.generation_method = "ANGLE" /\ props.angle = 45000)
        => /\ {mesh.verts[i] : i \in RidgeVertices(mesh)}
                 = {<<50000, 50000, 50000>>, <<50000, 50000, 50000 + ExtrudeZ>>}
           /\ Cardinality(RidgeVertices(mesh)) = 2
           /\ Len(mesh.faces) = 12
           /\ Cardinality(EaveEdges(mesh)) = 4

\* The path update_roof_modifier_bmesh reads: the one RoofData holds, loaded
\* from the record when it holds none
StoredPath ==
    IF roofData.is_loaded THEN roofData.path_data ELSE RoofData_load(pset).path_data

\* C18: update_roof_modifier_bmesh called with is_editing_path set, as
\* EnableEditingRoofPath calls it, leaves as the mesh the stored path: its
\* vertices scaled by the unit factor and its edges, without faces, nothing
\* dissolved and no roof generated (Spec).
C18_PathEditingShowsStoredPath ==
    [][(last'.op = "EnableEditingRoofPath" /\ ~StoredPath.none)
          => /\ props'.is_editing_path
             /\ mesh' = WireMesh([i \in DOMAIN StoredPath.verts |->
                                     <<(StoredPath.verts[i][1] * unit) \div 10000,
                                       (StoredPath.verts[i][2] * unit) \div 10000,
                                       (StoredPath.verts[i][3] * unit) \div 10000>>],
                                 StoredPath.edges)
             /\ mesh'.faces = <<>>
             /\ editmesh' = mesh']_vars

\* path editing was entered on the square with a vertex in the middle of a
\* side, in a project in millimetres: the vertex is still there
C18_Witness ==
    /\ last.op = "EnableEditingRoofPath"
    /\ props.is_editing_path
    /\ unit = 10
    /\ mesh = PathSquareMid
    /\ Len(pset.path_data.verts) = 5

\* C19: after EnableEditingRoofPath, CancelEditingRoofPath or
\* FinishEditingRoofPath, ended either way, the overlay is installed exactly
\* when is_editing_path is set (Spec).
C19_OverlayFollowsPathEditing ==
    last.op \in {"EnableEditingRoofPath", "CancelEditingRoofPath", "FinishEditingRoofPath"}
        => ((installed # None) <=> props.is_editing_path)

\* C20: at most one draw handler is registered, and one is exactly when
\* ProfileDecorator.installed is not None: then it is the handler
\* registered; an uninstall with nothing installed changes nothing and does
\* not fail (Spec).
C20_OneHandlerIffInstalled ==
    /\ [](/\ Cardinality(handlers) <= 1
          /\ (handlers # {}) <=> (installed # None)
          /\ installed # None => handlers = {installed})
    /\ [][(last'.op = "CancelEditingRoofPath" /\ installed = None)
             => (/\ installed' = None /\ handlers' = handlers
                 /\ last'.stage # "uninstall")]_vars

\* CancelEditingRoofPath ran ProfileDecorator.uninstall with nothing
\* installed and completed
C20_Witness ==
    /\ last.op = "CancelEditingRoofPath" /\ last.outcome = "finished"
    /\ installed = None /\ handlers = {}

\* The height of the skeleton's apex over the eaves: the highest vertex of
\* the roof, less the thickness the extrusion adds
RoofRise(m) ==
    (CHOOSE z \in {m.verts[i][3] : i \in DOMAIN m.verts} :
        \A i \in DOMAIN m.verts : m.verts[i][3] <= z) - ExtrudeZ

\* The distance of the ridge from the eaves of a rectangular path: half its
\* shorter side, in metres whatever the unit of the project
EaveDistance(path_data, u) ==
    LET xs == {FromProject(path_data.verts[i][1], u) : i \in DOMAIN path_data.verts}
        ys == {FromProject(path_data.verts[i][2], u) : i \in DOMAIN path_data.verts}
        w == (CHOOSE x \in xs : \A y \in xs : y <= x) - (CHOOSE x \in xs : \A y \in xs : x <= y)
        d == (CHOOSE x \in ys : \A y \in ys : y <= x) - (CHOOSE x \in ys : \A y \in ys : x <= y)
    IN (IF w < d THEN w ELSE d) \div 2

\* update_roof_modifier_bmesh generated the roof in ANGLE mode
RoofGeneratedByAngle ==
    /\ last.outcome = "finished" /\ last.stage = "done"
    /\ last.op \in {"AddRoof", "FinishEditingRoofPath", "CancelEditingRoofPath"}
    /\ pset.exists /\ ~props.is_editing_path
    /\ roofData.is_loaded /\ ~roofData.path_data.none
    /\ props.generation_method = "ANGLE"
    /\ mesh.faces # <<>>

\* C21: the angle update_roof_modifier_bmesh passes to the generator is the
\* stored angle property whatever the unit of the project: the roof on the
\* object rises by the tangent of props.angle times the distance of the
\* ridge from the eaves (Spec).
C21_AnglePassedIsStored ==
    RoofGeneratedByAngle =>
        RoofRise(mesh) * TanDegrees(props.angle)[2]
            = TanDegrees(props.angle)[1] * EaveDistance(roofData.path_data, unit)

\* what holds instead: the slope of the roof is the tangent of the stored
\* angle multiplied by the unit factor, as the height is
C21_AngleScaledAsLength ==
    RoofGeneratedByAngle =>
        RoofRise(mesh) * TanDegrees(FromProject(props.angle, unit))[2]
            = TanDegrees(FromProject(props.angle, unit))[1]
                 * EaveDistance(roofData.path_data, unit)

\* The prediction is satisfied: with a number its call was recorded that
\* many times, without one at least once
Satisfied(P, prediction) ==
    IF prediction.number.none THEN CountOf(P.calls, prediction.call) >= 1
    ELSE CountOf(P.calls, prediction.call) = prediction.number.n

\* Every recorded call is the call of some prediction
AllPredicted(P) ==
    \A i \in DOMAIN P.calls : \E j \in DOMAIN P.predictions :
        P.predictions[j].call = P.calls[i]

\* C22: Prophecy.verify succeeds exactly when every recorded call is the
\* call of some prediction and every prediction is satisfied: number = n
\* by n recorded calls, for every n >= 0, no number by at least one
\* (SpecProphecy).
C22_VerifyIffPredictionsMet ==
    last.op = "verify" =>
        ((last.outcome = "finished")
            <=> (/\ AllPredicted(prophet)
                 /\ \A j \in DOMAIN prophet.predictions :
                       Satisfied(prophet, prophet.predictions[j])))

\* the same with number = 0 taken as no number, as verify_should_be_called
\* takes it
C22_VerifyIffPredictionsMetZeroAsNone ==
    last.op = "verify" =>
        ((last.outcome = "finished")
            <=> (/\ AllPredicted(prophet)
                 /\ \A j \in DOMAIN prophet.predictions :
                       Satisfied(prophet,
                                 IF Truthy(prophet.predictions[j].number)
                                 THEN prophet.predictions[j]
                                 ELSE [prophet.predictions[j] EXCEPT !.number = NoNumber])))

=============================================================================
